---- MODULE Spec2Model ----
(***************************************************************************)
(* Model of the incremental HTTP/1.x parser of bee (src/src/http/parser.rs *)
(* and src/src/http/mod.rs).  Bytes are ASCII codes.  One call of          *)
(* Parser::parse is the operator parse(p, data, skip): it returns the      *)
(* parser after the call, the result of the call and the callbacks the     *)
(* call made on the handler, in order.                                     *)
(***************************************************************************)
EXTENDS Integers, Sequences, FiniteSets, TLC

(***************************************************************************)
(* Characters                                                              *)
(***************************************************************************)
\* The printable ASCII characters, code 32 (space) to code 126 (tilde); the
\* quotes, the backslash and the backtick are spelled out.
Printable ==
  << " ", "!", "dquote", "#", "$", "%", "&", "quote", "(", ")", "*", "+", ",", "-", ".", "/",
     "0", "1", "2", "3", "4", "5", "6", "7", "8", "9", ":", ";", "<", "=", ">", "?",
     "@", "A", "B", "C", "D", "E", "F", "G", "H", "I", "J", "K", "L", "M", "N", "O",
     "P", "Q", "R", "S", "T", "U", "V", "W", "X", "Y", "Z", "[", "backslash", "]", "^", "_",
     "backtick", "a", "b", "c", "d", "e", "f", "g", "h", "i", "j", "k", "l", "m", "n", "o",
     "p", "q", "r", "s", "t", "u", "v", "w", "x", "y", "z", "{", "|", "}", "~" >>

\* The byte of a character literal of the source.
Chr == [s \in {Printable[i] : i \in 1..Len(Printable)} |->
          31 + (CHOOSE i \in 1..Len(Printable) : Printable[i] = s)]

\* The bytes of a string literal of the source, given as its characters.
Text(chars) == [i \in 1..Len(chars) |-> Chr[chars[i]]]

CR == 13
LF == 10
HT == 9

\* uint arithmetic wraps; the machine word is scaled down to 16 bits so that
\* the sentinel and the wrap-around stay inside the model checker's integers.
Word == 65536
UINT_MAX == Word - 1
WAdd(a, b) == (a + b) % Word
WSub(a, b) == ((a - b) + Word) % Word
WMul(a, b) == (a * b) % Word

IsDigit(b) == b >= Chr["0"] /\ b <= Chr["9"]

to_lowercase(c) == IF c >= Chr["A"] /\ c <= Chr["Z"] THEN c + 32 ELSE c

is_token(c) ==
  \/ (c >= Chr["^"] /\ c <= Chr["z"])
  \/ (c >= Chr["A"] /\ c <= Chr["Z"])
  \/ (c >= Chr["-"] /\ c <= Chr["."])
  \/ (c >= Chr["#"] /\ c <= Chr["backslash"])
  \/ (c >= Chr["*"] /\ c <= Chr["+"])
  \/ (c >= Chr["0"] /\ c <= Chr["9"])
  \/ c = Chr["!"]
  \/ c = Chr["|"]
  \/ c = Chr["~"]

\* unhex that knows the decimal digits only.
unhex_DigitsOnly(b) == IF IsDigit(b) THEN b - Chr["0"] ELSE UINT_MAX

unhex(b) ==
  LET c == to_lowercase(b) IN
  IF IsDigit(c) THEN c - Chr["0"]
  ELSE IF c >= Chr["a"] /\ c <= Chr["f"] THEN 10 + (c - Chr["a"])
  ELSE UINT_MAX

(***************************************************************************)
(* src/src/http/mod.rs: versions and methods                               *)
(***************************************************************************)
find(major, minor) ==
  IF major = 0 /\ minor = 9 THEN "HTTP_0_9"
  ELSE IF major = 1 /\ minor = 0 THEN "HTTP_1_0"
  ELSE IF major = 1 /\ minor = 1 THEN "HTTP_1_1"
  ELSE "None"

name(m) ==
  CASE m = "HttpCheckout"    -> Text(<<"C","H","E","C","K","O","U","T">>)
    [] m = "HttpConnect"     -> Text(<<"C","O","N","N","E","C","T">>)
    [] m = "HttpCopy"        -> Text(<<"C","O","P","Y">>)
    [] m = "HttpDelete"      -> Text(<<"D","E","L","E","T","E">>)
    [] m = "HttpGet"         -> Text(<<"G","E","T">>)
    [] m = "HttpHead"        -> Text(<<"H","E","A","D">>)
    [] m = "HttpLink"        -> Text(<<"L","I","N","K">>)
    [] m = "HttpLock"        -> Text(<<"L","O","C","K">>)
    [] m = "HttpMerge"       -> Text(<<"M","E","R","G","E">>)
    [] m = "HttpMkActivity"  -> Text(<<"M","K","A","C","T","I","V","I","T","Y">>)
    [] m = "HttpMkCalendar"  -> Text(<<"M","K","C","A","L","E","N","D","A","R">>)
    [] m = "HttpMkCol"       -> Text(<<"M","K","C","O","L">>)
    [] m = "HttpMove"        -> Text(<<"M","O","V","E">>)
    [] m = "HttpMsearch"     -> Text(<<"M","-","S","E","A","R","C","H">>)
    [] m = "HttpNotify"      -> Text(<<"N","O","T","I","F","Y">>)
    [] m = "HttpOptions"     -> Text(<<"O","P","T","I","O","N","S">>)
    [] m = "HttpPatch"       -> Text(<<"P","A","T","C","H">>)
    [] m = "HttpPost"        -> Text(<<"P","O","S","T">>)
    [] m = "HttpPropFind"    -> Text(<<"P","R","O","P","F","I","N","D">>)
    [] m = "HttpPropPatch"   -> Text(<<"P","R","O","P","P","A","T","C","H">>)
    [] m = "HttpPut"         -> Text(<<"P","U","T">>)
    [] m = "HttpPurge"       -> Text(<<"P","U","R","G","E">>)
    [] m = "HttpReport"      -> Text(<<"R","E","P","O","R","T">>)
    [] m = "HttpSearch"      -> Text(<<"S","E","A","R","C","H">>)
    [] m = "HttpSubscribe"   -> Text(<<"S","U","B","S","C","R","I","B","E">>)
    [] m = "HttpTrace"       -> Text(<<"T","R","A","C","E">>)
    [] m = "HttpUnlink"      -> Text(<<"U","N","L","I","N","K">>)
    [] m = "HttpUnlock"      -> Text(<<"U","N","L","O","C","K">>)
    [] m = "HttpUnsubscribe" -> Text(<<"U","N","S","U","B","S","C","R","I","B","E">>)

\* char_at(pos) fails (the task panics) when pos is not inside the name.
hitInRange(m, pos) == pos < Len(name(m))
hit(m, pos, c) == name(m)[pos + 1] = c

(***************************************************************************)
(* The parser instance                                                     *)
(***************************************************************************)
ParseTypes == {"ParseRequest", "ParseResponse", "ParseBoth"}

StartState(t) ==
  CASE t = "ParseRequest"  -> "StartReq"
    [] t = "ParseResponse" -> "StartRes"
    [] t = "ParseBoth"     -> "StartReqOrRes"

new(t) ==
  [ parser_type       |-> t,
    http_version      |-> "None",
    state             |-> StartState(t),
    hstate            |-> "HeaderGeneral",
    method            |-> "None",
    status_code       |-> 0,
    message_body_rest |-> UINT_MAX,
    skip_body         |-> FALSE,
    index             |-> 0,
    major             |-> 0,
    minor             |-> 0,
    keep_alive        |-> FALSE,
    upgrade           |-> FALSE,
    chunked           |-> FALSE ]

reset(p) ==
  [p EXCEPT !.state = StartState(p.parser_type),
            !.index = 0,
            !.major = 0,
            !.minor = 0,
            !.message_body_rest = UINT_MAX,
            !.skip_body = FALSE,
            !.status_code = 0]

needs_eof(p) ==
  IF p.parser_type = "ParseRequest" THEN FALSE
  ELSE IF \/ p.status_code \div 100 = 1
          \/ p.status_code = 204
          \/ p.status_code = 304
          \/ p.skip_body
       THEN FALSE
       ELSE TRUE

\* get_http_version() and get_status_code(), which the tests call, read the
\* fields of the same names.
get_http_version(p) == p.http_version
get_status_code(p) == p.status_code

should_keep_alive(p) == p.keep_alive
should_upgrade(p) == p.upgrade
chunked(p) == p.chunked

(***************************************************************************)
(* One call of parse: the run context                                      *)
(*   p    the parser, read  the local `read`, log  the handler calls made, *)
(*   ctl  "cont" (next byte), "break" (left the byte loop), "err" (return  *)
(*        Err(err)), "panic" (unreachable!/unimplemented!/index failure),  *)
(*        "hang" (the chunk loop repeats without any change).              *)
(***************************************************************************)
Emit(c, ev) == [c EXCEPT !.log = Append(@, ev)]
\* handler.on_message_complete(self): the handler is handed the parser as it
\* is at the call.
on_message_complete(c) ==
  [c EXCEPT !.log = Append(@, <<"on_message_complete">>), !.seen = Append(@, c.p)]
Break(c) == [c EXCEPT !.ctl = "break"]
Panic(c) == [c EXCEPT !.ctl = "panic"]
Hang(c) == [c EXCEPT !.ctl = "hang"]
\* self.state = Crashed; return Err(e)
Crash(c, e) == [c EXCEPT !.p.state = "Crashed", !.ctl = "err", !.err = e]
\* return Err(e) with the state left as it is
ReturnErr(c, e) == [c EXCEPT !.ctl = "err", !.err = e]

\* handler.write(self, data.slice(start, end)); slice fails outside the input
Write(c, data, start, end) ==
  IF start <= end /\ end <= Len(data)
  THEN Emit(c, <<"write", SubSeq(data, start + 1, end)>>)
  ELSE [Panic(c) EXCEPT !.err = "IndexOutOfBounds"]

\* TokenStart without the test that keeps the start inside the slice.
TokenStart_Unclamped(c) == WSub(c.read, c.p.index + 1)

\* let start = if read > self.index + 1 { read - self.index - 1 } else { 0 }
TokenStart(c) ==
  IF c.read > c.p.index + 1 THEN c.read - c.p.index - 1 ELSE 0

\* handler.on_message_complete(self); self.reset();
Complete(c) ==
  [on_message_complete(c) EXCEPT !.p = reset(c.p)]

\* match self.message_body_rest { 0 => ..., UINT_MAX => ..., _ => ... }
BodyDecision(c) ==
  IF c.p.message_body_rest = 0 THEN Complete(c)
  ELSE IF c.p.message_body_rest = UINT_MAX
       THEN IF c.p.parser_type = "ParseRequest" \/ ~needs_eof(c.p)
            THEN Complete(c)
            ELSE [c EXCEPT !.p.state = "BodyIdentityEOF"]
       ELSE [c EXCEPT !.p.state = "BodyIdentity"]

\* End of headers as written in HeadersAlmostDone and HeaderValueDiscardLWS.
HeadersEnd(c, skip) ==
  LET c1 == Emit(c, <<"on_headers_complete">>) IN
  Break(IF skip \/ c1.p.upgrade \/ c1.p.skip_body THEN Complete(c1)
        ELSE IF c1.p.chunked
             THEN [c1 EXCEPT !.p.state = "ChunkSize", !.p.message_body_rest = 0]
             ELSE BodyDecision(c1))

\* End of headers as written in HeaderFieldStart (bare LF).
HeadersEndLF(c, skip) ==
  LET c1 == Emit(c, <<"on_headers_complete">>) IN
  Break(IF skip \/ c1.p.skip_body THEN Complete(c1) ELSE BodyDecision(c1))

FirstLetter(byte) ==
  CASE byte = Chr["C"] -> "HttpConnect"
    [] byte = Chr["D"] -> "HttpDelete"
    [] byte = Chr["G"] -> "HttpGet"
    [] byte = Chr["H"] -> "HttpHead"
    [] byte = Chr["L"] -> "HttpLink"
    [] byte = Chr["M"] -> "HttpMkCol"
    [] byte = Chr["N"] -> "HttpNotify"
    [] byte = Chr["O"] -> "HttpOptions"
    [] byte = Chr["P"] -> "HttpPut"
    [] byte = Chr["R"] -> "HttpReport"
    [] byte = Chr["S"] -> "HttpSearch"
    [] byte = Chr["T"] -> "HttpTrace"
    [] byte = Chr["U"] -> "HttpUnlink"
    [] OTHER -> "None"

\* StepStartReq without the leniency for CR and LF.
StepStartReq_Strict(c, byte) ==
  IF FirstLetter(byte) # "None"
  THEN [Emit(c, <<"on_message_begin">>) EXCEPT
          !.p.method = FirstLetter(byte), !.p.state = "ReqMethod", !.p.index = 1]
  ELSE Crash(c, "InvalidMethod")

StepStartReq(c, byte) ==
  IF FirstLetter(byte) # "None"
  THEN [Emit(c, <<"on_message_begin">>) EXCEPT
          !.p.method = FirstLetter(byte), !.p.state = "ReqMethod", !.p.index = 1]
  ELSE IF byte = CR \/ byte = LF THEN Break(c)
  ELSE Crash(c, "InvalidMethod")

StepStartRes(c, byte) ==
  IF byte = Chr["H"]
  THEN [Emit(c, <<"on_message_begin">>) EXCEPT !.p.state = "ResHttpStart", !.p.index = 1]
  ELSE IF byte = CR \/ byte = LF THEN Break(c)
  ELSE Crash(c, "InvalidMethod")

\* The guess is replaced when the byte does not match it.
Branch(method, index, byte) ==
  CASE method = "HttpConnect"   /\ index = 2 /\ byte = Chr["H"] -> "HttpCheckout"
    [] method = "HttpConnect"   /\ index = 3 /\ byte = Chr["P"] -> "HttpCheckout"
    [] method = "HttpLink"      /\ index = 1 /\ byte = Chr["O"] -> "HttpLock"
    [] method = "HttpMkCol"     /\ index = 1 /\ byte = Chr["-"] -> "HttpMsearch"
    [] method = "HttpMkCol"     /\ index = 1 /\ byte = Chr["E"] -> "HttpMerge"
    [] method = "HttpMkCol"     /\ index = 2 /\ byte = Chr["A"] -> "HttpMkActivity"
    [] method = "HttpMkCol"     /\ index = 3 /\ byte = Chr["A"] -> "HttpMkCalendar"
    [] method = "HttpPut"       /\ index = 1 /\ byte = Chr["A"] -> "HttpPatch"
    [] method = "HttpPut"       /\ index = 1 /\ byte = Chr["O"] -> "HttpPost"
    [] method = "HttpPut"       /\ index = 1 /\ byte = Chr["R"] -> "HttpPropPatch"
    [] method = "HttpPut"       /\ index = 2 /\ byte = Chr["R"] -> "HttpPurge"
    [] method = "HttpPropPatch" /\ index = 4 /\ byte = Chr["F"] -> "HttpPropFind"
    [] method = "HttpSearch"    /\ index = 1 /\ byte = Chr["U"] -> "HttpSubscribe"
    [] method = "HttpUnlink"    /\ index = 2 /\ byte = Chr["S"] -> "HttpUnsubscribe"
    [] method = "HttpUnlink"    /\ index = 3 /\ byte = Chr["O"] -> "HttpUnlock"
    [] OTHER -> "None"

StepReqMethod(c, byte) ==
  LET method == c.p.method IN
  IF method = "None" THEN Panic(c)
  ELSE IF byte = Chr[" "]
  THEN [Emit(c, <<"on_method", method>>) EXCEPT !.p.state = "ReqUrl", !.p.index = 0]
  ELSE IF ~hitInRange(method, c.p.index) THEN Panic(c)
  ELSE IF hit(method, c.p.index, byte)
  THEN [c EXCEPT !.p.index = WAdd(@, 1)]
  ELSE IF Branch(method, c.p.index, byte) # "None"
  THEN [c EXCEPT !.p.method = Branch(method, c.p.index, byte), !.p.index = WAdd(@, 1)]
  ELSE Crash(c, "InvalidMethod")

StepReqUrl(c, byte, data) ==
  IF byte = Chr[" "]
  THEN IF c.p.index = 0 THEN Crash(c, "InvalidUrl")
       ELSE LET c1 == Write(c, data, TokenStart(c), c.read - 1) IN
            IF c1.ctl = "panic" THEN c1
            ELSE [Emit(c1, <<"on_url", c.p.index>>) EXCEPT
                    !.p.state = "ReqHttpStart", !.p.index = 0]
  ELSE IF byte = CR \/ byte = LF
  THEN IF c.p.index = 0 THEN Crash(c, "InvalidUrl")
       ELSE LET c0 == [c EXCEPT !.p.http_version = "HTTP_0_9"]
                c1 == Write(c0, data, TokenStart(c), c.read - 1) IN
            IF c1.ctl = "panic" THEN c1
            ELSE Break([on_message_complete(Emit(c1, <<"on_url", c.p.index>>))
                          EXCEPT !.p.state = "Dead", !.p.index = 0])
  ELSE [c EXCEPT !.p.index = WAdd(@, 1)]

\* The literal HTTP/ and the first digit of the major number; withH is
\* FALSE for the response form, which has consumed H in StartRes.
StepHttpStart(c, byte, withH, majorState) ==
  LET i == c.p.index IN
  IF \/ (withH /\ byte # Chr["H"] /\ i = 0)
     \/ (byte # Chr["T"] /\ (i = 1 \/ i = 2))
     \/ (byte # Chr["P"] /\ i = 3)
     \/ (byte # Chr["/"] /\ i = 4)
     \/ (~IsDigit(byte) /\ i = 5)
  THEN Crash(c, "InvalidVersion")
  ELSE IF i = 5
  THEN [c EXCEPT !.p.state = majorState, !.p.major = byte - Chr["0"], !.p.index = 1]
  ELSE [c EXCEPT !.p.index = WAdd(@, 1)]

StepReqHttpStart(c, byte) == StepHttpStart(c, byte, TRUE, "ReqHttpMajor")
StepResHttpStart(c, byte) == StepHttpStart(c, byte, FALSE, "ResHttpMajor")

StepHttpMajor(c, byte, minorState) ==
  IF byte = Chr["."] /\ c.p.index > 0
  THEN [c EXCEPT !.p.state = minorState, !.p.index = 0]
  ELSE IF IsDigit(byte)
  THEN [c EXCEPT !.p.index = WAdd(@, 1),
                 !.p.major = WAdd(WMul(@, 10), byte - Chr["0"])]
  ELSE Crash(c, "InvalidVersion")

StepReqHttpMajor(c, byte) == StepHttpMajor(c, byte, "ReqHttpMinor")
StepResHttpMajor(c, byte) == StepHttpMajor(c, byte, "ResHttpMinor")

\* on_version, then the version and the default of keep_alive
SetVersion(c, v, next) ==
  [Emit(c, <<"on_version", v>>) EXCEPT
     !.p.http_version = v, !.p.keep_alive = (v = "HTTP_1_1"),
     !.p.state = next, !.p.index = 0]

StepReqHttpMinor(c, byte) ==
  IF IsDigit(byte)
  THEN [c EXCEPT !.p.index = WAdd(@, 1),
                 !.p.minor = WAdd(WMul(@, 10), byte - Chr["0"])]
  ELSE IF (byte = CR \/ byte = LF) /\ c.p.index > 0
  THEN LET v == find(c.p.major, c.p.minor) IN
       IF v = "None" THEN Crash(c, "InvalidVersion")
       ELSE SetVersion(c, v, IF byte = CR THEN "ReqLineAlmostDone" ELSE "HeaderFieldStart")
  ELSE Crash(c, "InvalidVersion")

StepReqLineAlmostDone(c, byte) ==
  IF byte # LF THEN ReturnErr(c, "InvalidRequestLine")
  ELSE [c EXCEPT !.p.state = "HeaderFieldStart"]

StepResHttpMinor(c, byte) ==
  IF IsDigit(byte)
  THEN [c EXCEPT !.p.index = WAdd(@, 1),
                 !.p.minor = WAdd(WMul(@, 10), byte - Chr["0"])]
  ELSE IF byte = Chr[" "] /\ c.p.index > 0
  THEN LET v == find(c.p.major, c.p.minor) IN
       IF v = "None" THEN Crash(c, "InvalidVersion")
       ELSE SetVersion(c, v, "ResStatusCode")
  ELSE Crash(c, "InvalidVersion")

StepResStatusCode(c, byte) ==
  IF IsDigit(byte) /\ c.p.index < 3
  THEN [c EXCEPT !.p.status_code = WAdd(WMul(@, 10), byte - Chr["0"]),
                 !.p.index = WAdd(@, 1)]
  ELSE LET c1 == Emit(c, <<"on_status", c.p.status_code>>) IN
       IF byte = Chr[" "] THEN [c1 EXCEPT !.p.state = "ResStatus", !.p.index = 0]
       ELSE IF byte = CR THEN [c1 EXCEPT !.p.state = "ResLineAlmostDone", !.p.index = 0]
       ELSE IF byte = LF THEN [c1 EXCEPT !.p.state = "HeaderFieldStart", !.p.index = 0]
       ELSE Crash(c1, "InvalidStatusLine")

StepResStatus(c, byte) ==
  [c EXCEPT !.p.state = IF byte = CR THEN "ResLineAlmostDone"
                        ELSE IF byte = LF THEN "HeaderFieldStart"
                        ELSE "ResStatus"]

StepResLineAlmostDone(c, byte) ==
  IF byte # LF THEN ReturnErr(c, "InvalidStatusLine")
  ELSE [c EXCEPT !.p.state = "HeaderFieldStart"]

(***************************************************************************)
(* Header block                                                            *)
(***************************************************************************)
StepHeaderFieldStart(c, byte, skip) ==
  IF byte = CR THEN [c EXCEPT !.p.state = "HeadersAlmostDone"]
  ELSE IF byte = LF THEN HeadersEndLF(c, skip)
  ELSE IF is_token(byte)
  THEN [c EXCEPT !.p.state = "HeaderField",
                 !.p.hstate = CASE to_lowercase(byte) = Chr["c"] -> "HeaderConnection"
                                [] to_lowercase(byte) = Chr["t"] -> "HeaderTransferEncoding"
                                [] to_lowercase(byte) = Chr["u"] -> "HeaderUpgrade"
                                [] OTHER -> "HeaderGeneral",
                 !.p.index = 1]
  ELSE Crash(c, "InvalidHeaderField")

\* The name a header state is matching, from its second byte on.
Connection == Text(<<"c","o","n","n","e","c","t","i","o","n">>)
ContentLength == Text(<<"c","o","n","t","e","n","t","-","l","e","n","g","t","h">>)
TransferEncoding ==
  Text(<<"t","r","a","n","s","f","e","r","-","e","n","c","o","d","i","n","g">>)

\* The arm `x if self.index == i` of a name or value table: byte x at index i.
Matches(word, from, c, index) ==
  index >= from /\ index < Len(word) /\ word[index + 1] = c

NextNameState(hstate, c, index) ==
  CASE hstate = "HeaderConnection" ->
         IF Matches(Connection, 1, c, index) THEN "HeaderConnection"
         ELSE IF c = Chr["t"] /\ index = 3 THEN "HeaderContentLength"
         ELSE "HeaderGeneral"
    [] hstate = "HeaderContentLength" ->
         IF Matches(ContentLength, 4, c, index) THEN "HeaderContentLength"
         ELSE "HeaderGeneral"
    [] hstate = "HeaderTransferEncoding" ->
         IF Matches(TransferEncoding, 1, c, index) THEN "HeaderTransferEncoding"
         ELSE "HeaderGeneral"
    [] OTHER -> "HeaderGeneral"

\* StepHeaderField with the length callback ahead of the name bytes.
StepHeaderField_LengthFirst(c, byte, data) ==
  IF byte = Chr[":"]
  THEN LET c1 == Write(Emit(c, <<"on_header_field", c.p.index>>),
                       data, TokenStart(c), c.read - 1) IN
       IF c1.ctl = "panic" THEN c1
       ELSE [c1 EXCEPT !.p.state = "HeaderValueDiscardWS", !.p.index = 0]
  ELSE IF byte = CR THEN [c EXCEPT !.p.state = "HeaderAlmostDone", !.p.index = 0]
  ELSE IF byte = LF THEN [c EXCEPT !.p.state = "HeaderFieldStart", !.p.index = 0]
  ELSE IF is_token(byte)
  THEN [c EXCEPT !.p.hstate = IF @ # "HeaderGeneral"
                               THEN NextNameState(@, to_lowercase(byte), c.p.index)
                               ELSE @,
                 !.p.index = WAdd(@, 1)]
  ELSE Crash(c, "InvalidHeaderField")

StepHeaderField(c, byte, data) ==
  IF byte = Chr[":"]
  THEN LET c1 == Write(c, data, TokenStart(c), c.read - 1) IN
       IF c1.ctl = "panic" THEN c1
       ELSE [Emit(c1, <<"on_header_field", c.p.index>>) EXCEPT
               !.p.state = "HeaderValueDiscardWS", !.p.index = 0]
  ELSE IF byte = CR THEN [c EXCEPT !.p.state = "HeaderAlmostDone", !.p.index = 0]
  ELSE IF byte = LF THEN [c EXCEPT !.p.state = "HeaderFieldStart", !.p.index = 0]
  ELSE IF is_token(byte)
  THEN [c EXCEPT !.p.hstate = IF @ # "HeaderGeneral"
                               THEN NextNameState(@, to_lowercase(byte), c.p.index)
                               ELSE @,
                 !.p.index = WAdd(@, 1)]
  ELSE Crash(c, "InvalidHeaderField")

StepHeaderValueDiscardWS(c, byte) ==
  IF byte = Chr[" "] \/ byte = HT THEN c
  ELSE IF byte = CR THEN [c EXCEPT !.p.state = "HeaderValueDiscardWSAlmostDone"]
  ELSE IF byte = LF THEN [c EXCEPT !.p.state = "HeaderValueDiscardLWS"]
  ELSE LET lc == to_lowercase(byte)
           h  == c.p.hstate IN
       [c EXCEPT
          !.p.hstate =
             CASE h = "HeaderConnection" /\ lc = Chr["c"] -> "HeaderMatchingClose"
               [] h = "HeaderConnection" /\ lc = Chr["k"] -> "HeaderMatchingKeepAlive"
               [] h = "HeaderConnection" /\ lc = Chr["u"] -> "HeaderMatchingUpgrade"
               [] h = "HeaderTransferEncoding" /\ lc = Chr["c"] -> "HeaderMatchingChunked"
               [] h = "HeaderContentLength" -> "HeaderContentLength"
               [] OTHER -> "HeaderGeneral",
          !.p.message_body_rest =
             IF h = "HeaderContentLength" THEN WSub(byte, Chr["0"]) ELSE @,
          !.p.state = "HeaderValue",
          !.p.index = WAdd(@, 1)]

StepHeaderValueDiscardWSAlmostDone(c, byte) ==
  IF byte # LF THEN Crash(c, "InvalidHeaderField")
  ELSE [c EXCEPT !.p.state = "HeaderValueDiscardLWS"]

StepHeaderValueDiscardLWS(c, byte, skip) ==
  IF byte = Chr[" "] \/ byte = HT
  THEN [c EXCEPT !.p.state = "HeaderValueDiscardWS"]
  ELSE LET c1 == [Emit(c, <<"on_header_value", 0>>) EXCEPT !.p.index = 0] IN
       IF byte = CR THEN [c1 EXCEPT !.p.state = "HeadersAlmostDone"]
       ELSE IF byte = LF THEN HeadersEnd(c1, skip)
       ELSE IF is_token(byte)
       THEN [c1 EXCEPT !.p.state = "HeaderFieldStart", !.p.index = 1]
       ELSE Crash(c1, "InvalidHeaderField")

KeepAlive == Text(<<"k","e","e","p","-","a","l","i","v","e">>)
Close == Text(<<"c","l","o","s","e">>)
Chunked == Text(<<"c","h","u","n","k","e","d">>)
Upgrade == Text(<<"u","p","g","r","a","d","e">>)

\* The value tables; the last arm of HeaderMatchingUpgrade is 'e' at index 6.
NextValueState(hstate, c, index) ==
  CASE hstate = "HeaderMatchingKeepAlive" ->
         IF Matches(KeepAlive, 1, c, index) THEN hstate ELSE "HeaderGeneral"
    [] hstate = "HeaderMatchingClose" ->
         IF Matches(Close, 1, c, index) THEN hstate ELSE "HeaderGeneral"
    [] hstate = "HeaderMatchingChunked" ->
         IF Matches(Chunked, 1, c, index) THEN hstate ELSE "HeaderGeneral"
    [] hstate = "HeaderMatchingUpgrade" ->
         IF Matches(Upgrade, 1, c, index) THEN hstate ELSE "HeaderGeneral"
    [] OTHER -> "HeaderGeneral"

\* StepHeaderValue without the length tests for chunked, close and keep-alive.
StepHeaderValue_AnyLength(c, byte, data) ==
  IF byte = CR \/ byte = LF
  THEN LET h == c.p.hstate
           i == c.p.index
           c0 == [c EXCEPT
                    !.p.state = IF byte = CR THEN "HeaderAlmostDone" ELSE "HeaderFieldStart",
                    !.p.chunked = IF h = "HeaderMatchingChunked" THEN TRUE ELSE @,
                    !.p.keep_alive =
                        IF h = "HeaderMatchingChunked" THEN @
                        ELSE IF h = "HeaderMatchingClose" THEN FALSE
                        ELSE IF h = "HeaderMatchingKeepAlive" THEN TRUE
                        ELSE @,
                    !.p.upgrade = IF h = "HeaderMatchingUpgrade" /\ i = 6 THEN TRUE ELSE @]
           c1 == Write(c0, data, TokenStart(c), c.read - 1) IN
       IF c1.ctl = "panic" THEN c1
       ELSE [Emit(c1, <<"on_header_value", i>>) EXCEPT !.p.index = 0]
  ELSE IF c.p.hstate # "HeaderGeneral" /\ is_token(byte)
  THEN LET h == c.p.hstate IN
       IF h = "HeaderContentLength"
       THEN IF IsDigit(byte)
            THEN [c EXCEPT !.p.message_body_rest = WAdd(WMul(@, 10), byte - Chr["0"]),
                           !.p.index = WAdd(@, 1)]
            ELSE [c EXCEPT !.p.message_body_rest = UINT_MAX,
                           !.p.hstate = "HeaderGeneral",
                           !.p.index = WAdd(@, 1)]
       ELSE [c EXCEPT !.p.hstate = NextValueState(h, to_lowercase(byte), c.p.index),
                      !.p.index = WAdd(@, 1)]
  ELSE [c EXCEPT !.p.index = WAdd(@, 1)]

StepHeaderValue(c, byte, data) ==
  IF byte = CR \/ byte = LF
  THEN LET h == c.p.hstate
           i == c.p.index
           c0 == [c EXCEPT
                    !.p.state = IF byte = CR THEN "HeaderAlmostDone" ELSE "HeaderFieldStart",
                    !.p.chunked = IF h = "HeaderMatchingChunked" /\ i = 7 THEN TRUE ELSE @,
                    !.p.keep_alive =
                        IF h = "HeaderMatchingChunked" /\ i = 7 THEN @
                        ELSE IF h = "HeaderMatchingClose" /\ i = 5 THEN FALSE
                        ELSE IF h = "HeaderMatchingKeepAlive" /\ i = 10 THEN TRUE
                        ELSE @,
                    !.p.upgrade = IF h = "HeaderMatchingUpgrade" /\ i = 6 THEN TRUE ELSE @]
           c1 == Write(c0, data, TokenStart(c), c.read - 1) IN
       IF c1.ctl = "panic" THEN c1
       ELSE [Emit(c1, <<"on_header_value", i>>) EXCEPT !.p.index = 0]
  ELSE IF c.p.hstate # "HeaderGeneral" /\ is_token(byte)
  THEN LET h == c.p.hstate IN
       IF h = "HeaderContentLength"
       THEN IF IsDigit(byte)
            THEN [c EXCEPT !.p.message_body_rest = WAdd(WMul(@, 10), byte - Chr["0"]),
                           !.p.index = WAdd(@, 1)]
            ELSE [c EXCEPT !.p.message_body_rest = UINT_MAX,
                           !.p.hstate = "HeaderGeneral",
                           !.p.index = WAdd(@, 1)]
       ELSE [c EXCEPT !.p.hstate = NextValueState(h, to_lowercase(byte), c.p.index),
                      !.p.index = WAdd(@, 1)]
  ELSE [c EXCEPT !.p.index = WAdd(@, 1)]

StepHeaderAlmostDone(c, byte) ==
  IF byte # LF THEN Crash(c, "InvalidHeaderField")
  ELSE [c EXCEPT !.p.state = "HeaderFieldStart"]

StepHeadersAlmostDone(c, byte, skip) ==
  IF byte # LF THEN Crash(c, "InvalidHeaders")
  ELSE HeadersEnd(c, skip)

(***************************************************************************)
(* The byte loop of the start line and the header block                    *)
(***************************************************************************)
\* One iteration of `for &byte in data.iter()`: read += 1; match self.state.
HeadStep(c0, data, skip) ==
  LET c    == [c0 EXCEPT !.read = @ + 1]
      byte == data[c.read]
      s    == c.p.state IN
  CASE s = "StartReq"                       -> StepStartReq(c, byte)
    [] s = "StartRes"                       -> StepStartRes(c, byte)
    [] s = "ReqMethod"                      -> StepReqMethod(c, byte)
    [] s = "ReqUrl"                         -> StepReqUrl(c, byte, data)
    [] s = "ReqHttpStart"                   -> StepReqHttpStart(c, byte)
    [] s = "ReqHttpMajor"                   -> StepReqHttpMajor(c, byte)
    [] s = "ReqHttpMinor"                   -> StepReqHttpMinor(c, byte)
    [] s = "ReqLineAlmostDone"              -> StepReqLineAlmostDone(c, byte)
    [] s = "ResHttpStart"                   -> StepResHttpStart(c, byte)
    [] s = "ResHttpMajor"                   -> StepResHttpMajor(c, byte)
    [] s = "ResHttpMinor"                   -> StepResHttpMinor(c, byte)
    [] s = "ResStatusCode"                  -> StepResStatusCode(c, byte)
    [] s = "ResStatus"                      -> StepResStatus(c, byte)
    [] s = "ResLineAlmostDone"              -> StepResLineAlmostDone(c, byte)
    [] s = "HeaderFieldStart"               -> StepHeaderFieldStart(c, byte, skip)
    [] s = "HeaderField"                    -> StepHeaderField(c, byte, data)
    [] s = "HeaderValueDiscardWS"           -> StepHeaderValueDiscardWS(c, byte)
    [] s = "HeaderValueDiscardWSAlmostDone" -> StepHeaderValueDiscardWSAlmostDone(c, byte)
    [] s = "HeaderValueDiscardLWS"          -> StepHeaderValueDiscardLWS(c, byte, skip)
    [] s = "HeaderValue"                    -> StepHeaderValue(c, byte, data)
    [] s = "HeaderAlmostDone"               -> StepHeaderAlmostDone(c, byte)
    [] s = "HeadersAlmostDone"              -> StepHeadersAlmostDone(c, byte, skip)
    [] OTHER                                -> Panic(c)

RECURSIVE HeadLoop(_, _, _)
HeadLoop(c, data, skip) ==
  IF c.read = Len(data) THEN c
  ELSE LET c1 == HeadStep(c, data, skip) IN
       IF c1.ctl = "cont" THEN HeadLoop(c1, data, skip) ELSE c1

(***************************************************************************)
(* The chunk loop                                                          *)
(***************************************************************************)
\* One iteration of 'chunksize; ctl "next" stands for break 'chunksize and
\* "break" for break 'chunk.
ChunkSizeStep(c0, data) ==
  LET c    == [c0 EXCEPT !.read = @ + 1]
      byte == data[c.read]
      s    == c.p.state IN
  CASE s = "ChunkExtension" ->
         IF byte = CR THEN [c EXCEPT !.p.state = "ChunkSizeAlmostDone"] ELSE c
    [] s = "ChunkSize" ->
         IF byte = Chr[";"] THEN [c EXCEPT !.p.state = "ChunkExtension"]
         ELSE IF byte = CR THEN [c EXCEPT !.p.state = "ChunkSizeAlmostDone"]
         ELSE IF unhex(byte) > 15 THEN Crash(c, "InvalidChunk")
         ELSE [c EXCEPT !.p.message_body_rest = WAdd(WMul(@, 16), unhex(byte))]
    [] s = "ChunkSizeAlmostDone" ->
         IF byte # LF THEN Crash(c, "InvalidChunk")
         ELSE IF c.p.message_body_rest = 0
              THEN Break(on_message_complete(c))
              ELSE [c EXCEPT !.p.state = "ChunkData", !.ctl = "next"]
    [] OTHER -> Panic(c)

RECURSIVE ChunkSizeLoop(_, _)
ChunkSizeLoop(c, data) ==
  IF c.read = Len(data) THEN c
  ELSE LET c1 == ChunkSizeStep(c, data) IN
       IF c1.ctl = "cont" THEN ChunkSizeLoop(c1, data) ELSE c1

\* 'chunk: loop { ... }.  When the inner loop runs out of input without a
\* break, the next iteration finds the same state and an empty rest, and so
\* does every iteration after it: the call does not return.
RECURSIVE ChunkLoop(_, _)
ChunkLoop(c, data) ==
  IF c.p.state = "ChunkData"
  THEN LET rest == Len(data) - c.read
           mbr  == c.p.message_body_rest IN
       IF mbr = 0 /\ rest > 2
       THEN IF data[c.read + 1] # CR \/ data[c.read + 2] # LF
            THEN Crash(c, "InvalidChunk")
            ELSE ChunkLoop([c EXCEPT !.read = @ + 2, !.p.state = "ChunkSize"], data)
       ELSE IF rest >= mbr
       THEN LET c1 == [Write(c, data, c.read, c.read + mbr) EXCEPT
                         !.read = @ + mbr, !.p.message_body_rest = 0] IN
            IF Len(data) - c1.read < 2 THEN Break(c1)
            ELSE ChunkLoop([c1 EXCEPT !.read = @ + 2, !.p.state = "ChunkSize"], data)
       ELSE Break([Write(c, data, c.read, Len(data)) EXCEPT
                     !.read = @ + rest, !.p.message_body_rest = mbr - rest])
  ELSE LET c1 == ChunkSizeLoop(c, data) IN
       IF c1.ctl = "cont" THEN Hang(c1)
       ELSE IF c1.ctl = "next" THEN ChunkLoop([c1 EXCEPT !.ctl = "cont"], data)
       ELSE c1

(***************************************************************************)
(* After the loops: match self.state { BodyIdentity ..., ReqUrl | ... }    *)
(***************************************************************************)
\* AfterLoops with a BodyIdentity that takes the whole rest of the slice.
AfterLoops_WholeSlice(c, data) ==
  IF c.p.state = "BodyIdentity"
  THEN LET rest == Len(data) - c.read
           mbr  == c.p.message_body_rest IN
       IF rest >= mbr
       THEN LET c1 == on_message_complete(Emit(Write(c, data, c.read, Len(data)), <<"on_body", mbr>>)) IN
            [c1 EXCEPT !.read = @ + rest, !.p = reset(c1.p)]
       ELSE [Write(c, data, c.read, Len(data)) EXCEPT
               !.read = @ + rest, !.p.message_body_rest = mbr - rest]
  ELSE IF c.p.state \in {"ReqUrl", "HeaderField", "HeaderValue"}
  THEN Write(c, data, IF c.read > c.p.index THEN c.read - c.p.index ELSE 0, c.read)
  ELSE c

AfterLoops(c, data) ==
  IF c.p.state = "BodyIdentity"
  THEN LET rest == Len(data) - c.read
           mbr  == c.p.message_body_rest IN
       IF rest >= mbr
       THEN LET c1 == on_message_complete(Emit(Write(c, data, c.read, c.read + mbr), <<"on_body", mbr>>)) IN
            [c1 EXCEPT !.read = @ + mbr, !.p = reset(c1.p)]
       ELSE [Write(c, data, c.read, Len(data)) EXCEPT
               !.read = @ + rest, !.p.message_body_rest = mbr - rest]
  ELSE IF c.p.state \in {"ReqUrl", "HeaderField", "HeaderValue"}
  THEN Write(c, data, IF c.read > c.p.index THEN c.read - c.p.index ELSE 0, c.read)
  ELSE c

(***************************************************************************)
(* Parser::parse                                                           *)
(***************************************************************************)
BodyStates ==
  {"BodyIdentity", "BodyIdentityEOF", "ChunkSize", "ChunkSizeAlmostDone", "ChunkData"}

Outcome(p, kind, err, consumed, log, seen) ==
  [p |-> p, kind |-> kind, err |-> err, consumed |-> consumed, log |-> log,
   seen |-> seen]

\* The result of a run context that has left the loops.
Finish(c) ==
  CASE c.ctl = "err"   -> Outcome(c.p, "Err", c.err, 0, c.log, c.seen)
    [] c.ctl = "panic" -> Outcome(c.p, "Panic", c.err, 0, c.log, c.seen)
    [] c.ctl = "hang"  -> Outcome(c.p, "Hang", "None", 0, c.log, c.seen)
    [] OTHER           -> Outcome(c.p, "Ok", "None", c.read, c.log, c.seen)

Stopped(c) == c.ctl \in {"err", "panic", "hang"}

\* The run context at the start of a call: let mut read = 0.
Begin(p) ==
  [p |-> p, read |-> 0, log |-> <<>>, seen |-> <<>>, ctl |-> "cont", err |-> "None"]

\* if !(self.state == BodyIdentity || ...) { for &byte in data.iter() ... }
HeadPhase(c, data, skip) ==
  IF c.p.state \notin BodyStates THEN HeadLoop(c, data, skip) ELSE c

\* if self.chunked { 'chunk: loop ... }
ChunkPhase(c, data) ==
  IF Stopped(c) THEN c
  ELSE IF c.p.chunked THEN ChunkLoop([c EXCEPT !.ctl = "cont"], data)
  ELSE c

\* match self.state { BodyIdentity ..., ReqUrl | HeaderField | HeaderValue ... }
LastPhase(c, data) == IF Stopped(c) THEN c ELSE AfterLoops(c, data)

\* The body of parse after its three early returns; skip is what the
\* handler's on_headers_complete returns during the call.
run(p, data, skip) ==
  Finish(LastPhase(ChunkPhase(HeadPhase(Begin(p), data, skip), data), data))

\* parse without the return for a Dead parser.
parse_NoDeadReturn(p, data, skip) ==
  IF p.state = "Crashed" THEN Outcome(p, "Err", "OtherParseError", 0, <<>>, <<>>)
  ELSE IF Len(data) = 0 THEN Outcome(p, "Ok", "None", 0, <<>>, <<>>)
  ELSE run(p, data, skip)

\* parse without the return for empty input.
parse_NoEmptyReturn(p, data, skip) ==
  IF p.state = "Dead" THEN Outcome(p, "Ok", "None", 0, <<>>, <<>>)
  ELSE IF p.state = "Crashed" THEN Outcome(p, "Err", "OtherParseError", 0, <<>>, <<>>)
  ELSE run(p, data, skip)

parse(p, data, skip) ==
  IF p.state = "Dead" THEN Outcome(p, "Ok", "None", 0, <<>>, <<>>)
  ELSE IF p.state = "Crashed" THEN Outcome(p, "Err", "OtherParseError", 0, <<>>, <<>>)
  ELSE IF Len(data) = 0 THEN Outcome(p, "Ok", "None", 0, <<>>, <<>>)
  ELSE run(p, data, skip)

(***************************************************************************)
(* Messages on the wire (tests of src/src/http/tests.rs, scenarios S1-S6,   *)
(* and malformed variants)                                                  *)
(***************************************************************************)
\* GET /\r\n
ReqGet09 ==
  << 71, 69, 84, 32, 47, 13, 10 >>

\* GET / HTTP/1.0\r\n\r\n
ReqGet10 ==
  << 71, 69, 84, 32, 47, 32, 72, 84, 84, 80, 47, 49, 46, 48, 13, 10, 13, 10 >>

\* GET / HTTP/1.1\r\nHost: x\r\n\r\n
ReqGet11Host ==
  << 71, 69, 84, 32, 47, 32, 72, 84, 84, 80, 47, 49, 46, 49, 13, 10, 72, 111,
     115, 116, 58, 32, 120, 13, 10, 13, 10 >>

\* GET /close HTTP/1.1\r\nHost: x\r\nConnection: close\r\n\r\n
ReqClose ==
  << 71, 69, 84, 32, 47, 99, 108, 111, 115, 101, 32, 72, 84, 84, 80, 47, 49,
     46, 49, 13, 10, 72, 111, 115, 116, 58, 32, 120, 13, 10, 67, 111, 110,
     110, 101, 99, 116, 105, 111, 110, 58, 32, 99, 108, 111, 115, 101, 13,
     10, 13, 10 >>

\* GET / HTTP/1.1\r\ncOnNeCtIoN: CLOSE\r\n\r\n
ReqCloseMixed ==
  << 71, 69, 84, 32, 47, 32, 72, 84, 84, 80, 47, 49, 46, 49, 13, 10, 99, 79,
     110, 78, 101, 67, 116, 73, 111, 78, 58, 32, 67, 76, 79, 83, 69, 13, 10,
     13, 10 >>

\* GET / HTTP/1.0\r\nConnection: keep-alive\r\n\r\n
ReqKeepAlive ==
  << 71, 69, 84, 32, 47, 32, 72, 84, 84, 80, 47, 49, 46, 48, 13, 10, 67, 111,
     110, 110, 101, 99, 116, 105, 111, 110, 58, 32, 107, 101, 101, 112, 45,
     97, 108, 105, 118, 101, 13, 10, 13, 10 >>

\* GET / HTTP/1.1\r\nC: close\r\n\r\n
ReqPrefixClose ==
  << 71, 69, 84, 32, 47, 32, 72, 84, 84, 80, 47, 49, 46, 49, 13, 10, 67, 58,
     32, 99, 108, 111, 115, 101, 13, 10, 13, 10 >>

\* GET / HTTP/1.1\r\nConnection: upgrad\r\n\r\n
ReqUpgrad ==
  << 71, 69, 84, 32, 47, 32, 72, 84, 84, 80, 47, 49, 46, 49, 13, 10, 67, 111,
     110, 110, 101, 99, 116, 105, 111, 110, 58, 32, 117, 112, 103, 114, 97,
     100, 13, 10, 13, 10 >>

\* POST /p HTTP/1.1\r\nContent-Length: 5\r\n\r\nhello
ReqLength ==
  << 80, 79, 83, 84, 32, 47, 112, 32, 72, 84, 84, 80, 47, 49, 46, 49, 13, 10,
     67, 111, 110, 116, 101, 110, 116, 45, 76, 101, 110, 103, 116, 104, 58,
     32, 53, 13, 10, 13, 10, 104, 101, 108, 108, 111 >>

\* POST /p HTTP/1.1\r\nTransfer-Encoding: chunked\r\n\r\n5\r\nhello\r\n0\r\n\r\n
ReqChunked ==
  << 80, 79, 83, 84, 32, 47, 112, 32, 72, 84, 84, 80, 47, 49, 46, 49, 13, 10,
     84, 114, 97, 110, 115, 102, 101, 114, 45, 69, 110, 99, 111, 100, 105,
     110, 103, 58, 32, 99, 104, 117, 110, 107, 101, 100, 13, 10, 13, 10, 53,
     13, 10, 104, 101, 108, 108, 111, 13, 10, 48, 13, 10, 13, 10 >>

\* \r\nGET / HTTP/1.0\r\n\r\n
ReqLeadingCRLF ==
  << 13, 10, 71, 69, 84, 32, 47, 32, 72, 84, 84, 80, 47, 49, 46, 48, 13, 10,
     13, 10 >>

\* HTTP/1.1 304 Not Modified\r\n\r\n
Res304 ==
  << 72, 84, 84, 80, 47, 49, 46, 49, 32, 51, 48, 52, 32, 78, 111, 116, 32,
     77, 111, 100, 105, 102, 105, 101, 100, 13, 10, 13, 10 >>

\* HTTP/1.1 200 OK\r\nContent-Length: 5\r\n\r\nhello
ResLength ==
  << 72, 84, 84, 80, 47, 49, 46, 49, 32, 50, 48, 48, 32, 79, 75, 13, 10, 67,
     111, 110, 116, 101, 110, 116, 45, 76, 101, 110, 103, 116, 104, 58, 32,
     53, 13, 10, 13, 10, 104, 101, 108, 108, 111 >>

\* HTTP/1.0 200 OK\r\nContent-Length: 0\r\n\r\n
ResLength0 ==
  << 72, 84, 84, 80, 47, 49, 46, 48, 32, 50, 48, 48, 32, 79, 75, 13, 10, 67,
     111, 110, 116, 101, 110, 116, 45, 76, 101, 110, 103, 116, 104, 58, 32,
     48, 13, 10, 13, 10 >>

\* HTTP/1.1 200 OK\r\nTransfer-Encoding: chunked\r\n\r\n5\r\nhello\r\n0\r\n\r\n
ResChunked ==
  << 72, 84, 84, 80, 47, 49, 46, 49, 32, 50, 48, 48, 32, 79, 75, 13, 10, 84,
     114, 97, 110, 115, 102, 101, 114, 45, 69, 110, 99, 111, 100, 105, 110,
     103, 58, 32, 99, 104, 117, 110, 107, 101, 100, 13, 10, 13, 10, 53, 13,
     10, 104, 101, 108, 108, 111, 13, 10, 48, 13, 10, 13, 10 >>

\* HTTP/1.0 200 OK\r\n\r\nhi
ResEof ==
  << 72, 84, 84, 80, 47, 49, 46, 48, 32, 50, 48, 48, 32, 79, 75, 13, 10, 13,
     10, 104, 105 >>

\* XET / HTTP/1.0\r\n\r\n
BadMethod ==
  << 88, 69, 84, 32, 47, 32, 72, 84, 84, 80, 47, 49, 46, 48, 13, 10, 13, 10 >>

\* GET  HTTP/1.0\r\n\r\n
BadUrl ==
  << 71, 69, 84, 32, 32, 72, 84, 84, 80, 47, 49, 46, 48, 13, 10, 13, 10 >>

\* GET / HTTP/2.0\r\n\r\n
BadVersion ==
  << 71, 69, 84, 32, 47, 32, 72, 84, 84, 80, 47, 50, 46, 48, 13, 10, 13, 10 >>

\* GET / HTTP/1.1\rX\n\r\n
BadRequestLine ==
  << 71, 69, 84, 32, 47, 32, 72, 84, 84, 80, 47, 49, 46, 49, 13, 88, 10, 13,
     10 >>

\* GET / HTTP/1.1\r\n{: x\r\n\r\n
BadHeaderField ==
  << 71, 69, 84, 32, 47, 32, 72, 84, 84, 80, 47, 49, 46, 49, 13, 10, 123, 58,
     32, 120, 13, 10, 13, 10 >>

\* GET / HTTP/1.1\r\n\rX\r\n
BadHeaders ==
  << 71, 69, 84, 32, 47, 32, 72, 84, 84, 80, 47, 49, 46, 49, 13, 10, 13, 88,
     13, 10 >>

\* POST /p HTTP/1.1\r\nTransfer-Encoding: chunked\r\n\r\nz\r\n
BadChunk ==
  << 80, 79, 83, 84, 32, 47, 112, 32, 72, 84, 84, 80, 47, 49, 46, 49, 13, 10,
     84, 114, 97, 110, 115, 102, 101, 114, 45, 69, 110, 99, 111, 100, 105,
     110, 103, 58, 32, 99, 104, 117, 110, 107, 101, 100, 13, 10, 13, 10, 122,
     13, 10 >>

\* HTTP/1.1 200 OK\rX\n\r\n
BadStatusLine ==
  << 72, 84, 84, 80, 47, 49, 46, 49, 32, 50, 48, 48, 32, 79, 75, 13, 88, 10,
     13, 10 >>

\* HTTP/1.1 20x OK\r\n\r\n
BadStatus ==
  << 72, 84, 84, 80, 47, 49, 46, 49, 32, 50, 48, 120, 32, 79, 75, 13, 10, 13,
     10 >>

(***************************************************************************)
(* Start lines and a lenient header block, fed to a fresh parser            *)
(***************************************************************************)
\* HTTP/1.1 200 OK\r\nTransfer-Encoding: chunked\r\n\n5\r\nhello\r\n0\r\n\r\n
ResChunkedLF ==
  << 72, 84, 84, 80, 47, 49, 46, 49, 32, 50, 48, 48, 32, 79, 75, 13, 10, 84,
     114, 97, 110, 115, 102, 101, 114, 45, 69, 110, 99, 111, 100, 105, 110,
     103, 58, 32, 99, 104, 117, 110, 107, 101, 100, 13, 10, 10, 53, 13, 10,
     104, 101, 108, 108, 111, 13, 10, 48, 13, 10, 13, 10 >>

\* GET / HTTP/1.1\r\nA:\r\nBc: d\r\n\r\n
ReqEmptyValue ==
  << 71, 69, 84, 32, 47, 32, 72, 84, 84, 80, 47, 49, 46, 49, 13, 10, 65, 58,
     13, 10, 66, 99, 58, 32, 100, 13, 10, 13, 10 >>

\* GET / HTTP/1.1\r\nConnection: upgrade\r\nContent-Length: 5\r\n\r\nhello
ReqUpgradeLength ==
  << 71, 69, 84, 32, 47, 32, 72, 84, 84, 80, 47, 49, 46, 49, 13, 10, 67, 111,
     110, 110, 101, 99, 116, 105, 111, 110, 58, 32, 117, 112, 103, 114, 97,
     100, 101, 13, 10, 67, 111, 110, 116, 101, 110, 116, 45, 76, 101, 110,
     103, 116, 104, 58, 32, 53, 13, 10, 13, 10, 104, 101, 108, 108, 111 >>

\* GET / HTTP/1.1\r\nConnection: upgrad\r\nContent-Length: 5\r\n\r\nhello
ReqUpgradLength ==
  << 71, 69, 84, 32, 47, 32, 72, 84, 84, 80, 47, 49, 46, 49, 13, 10, 67, 111,
     110, 110, 101, 99, 116, 105, 111, 110, 58, 32, 117, 112, 103, 114, 97,
     100, 13, 10, 67, 111, 110, 116, 101, 110, 116, 45, 76, 101, 110, 103,
     116, 104, 58, 32, 53, 13, 10, 13, 10, 104, 101, 108, 108, 111 >>

\* Where the blank line that ends the header block ends.
HeaderEnd(w) ==
  CHOOSE i \in 4..Len(w) :
    /\ SubSeq(w, i - 3, i) = <<CR, LF, CR, LF>>
    /\ \A j \in 4..(i - 1) : SubSeq(w, j - 3, j) # <<CR, LF, CR, LF>>

\* The places of the CR LF pairs of the start line and the header block of w.
LineEnds(w) == {i \in 1..(HeaderEnd(w) - 1) : w[i] = CR /\ w[i + 1] = LF}

\* w with the k-th of these CR LF pairs replaced by a bare LF.
BareLF(w, k) ==
  LET i == CHOOSE j \in LineEnds(w) : Cardinality({h \in LineEnds(w) : h <= j}) = k
  IN  SubSeq(w, 1, i - 1) \o SubSeq(w, i + 1, Len(w))

\* Messages of the catalog with one line ended by a bare LF: the start line
\* (1), the header line (2) or the blank line (3).
LenientNames ==
  {"ReqGet11Host/1", "ReqGet11Host/2", "ReqGet11Host/3",
   "ResLength/1", "ResLength/2", "ResLength/3", "ReqChunked/3", "Res304/1", "Res304/2"}

\* The CR LF form of a lenient message and the line that ends with LF.
LenientOf(n) ==
  CASE n = "ReqGet11Host/1" -> <<ReqGet11Host, 1>>
    [] n = "ReqGet11Host/2" -> <<ReqGet11Host, 2>>
    [] n = "ReqGet11Host/3" -> <<ReqGet11Host, 3>>
    [] n = "ResLength/1" -> <<ResLength, 1>>
    [] n = "ResLength/2" -> <<ResLength, 2>>
    [] n = "ResLength/3" -> <<ResLength, 3>>
    [] n = "ReqChunked/3" -> <<ReqChunked, 3>>
    [] n = "Res304/1" -> <<Res304, 1>>
    [] n = "Res304/2" -> <<Res304, 2>>
    [] n = "ResChunkedLF" -> <<ResChunked, 3>>

\* Messages of the catalog with CR and LF bytes before the start line, alone
\* or after an earlier message on the same connection.
LeadingNames == {"LeadReqCRLF", "LeadReqLF", "LeadResCRLF", "LeadReqSecond", "LeadResSecond"}

\* What stands before the start line, and the message that follows.
LeadingOf(n) ==
  CASE n = "LeadReqCRLF"   -> <<(<<CR, LF, CR, LF>>), ReqGet11Host>>
    [] n = "LeadReqLF"     -> <<(<<LF>>), ReqGet10>>
    [] n = "LeadResCRLF"   -> <<(<<CR, LF>>), Res304>>
    [] n = "LeadReqSecond" -> <<ReqGet11Host \o <<CR, LF>>, ReqClose>>
    [] n = "LeadResSecond" -> <<Res304 \o <<LF, CR, LF>>, ResLength0>>

(***************************************************************************)
(* Chunked bodies, each sent after the header block of the chunked request *)
(***************************************************************************)
\* Bodies with a chunk-size line that is malformed.
BadSizes == {"ChunkSizeG", "ChunkSizeSP", "ChunkSizeCRX", "ChunkExtCRX", "ChunkSizeLF"}

\* Bodies with well-formed chunk-size lines.
GoodSizes == {"ChunkHexA", "ChunkHexb", "ChunkExt", "ChunkTwo"}

\* Bodies in which the chunk data is not followed by CR LF.
BadDataEnds == {"ChunkDataXY", "ChunkDataCRX", "ChunkDataNone"}

ChunkNames == BadSizes \cup GoodSizes \cup BadDataEnds

\* The bytes of a chunked body.
ChunkBody(n) ==
  \* 5g\r\n
  CASE n = "ChunkSizeG" ->
       <<53, 103, 13, 10>>
  \* 5 \r\n
    [] n = "ChunkSizeSP" ->
       <<53, 32, 13, 10>>
  \* 5\rXhello
    [] n = "ChunkSizeCRX" ->
       <<53, 13, 88, 104, 101, 108, 108, 111>>
  \* 5;ab\rX
    [] n = "ChunkExtCRX" ->
       <<53, 59, 97, 98, 13, 88>>
  \* 5\nhello\r\n0\r\n\r\n
    [] n = "ChunkSizeLF" ->
       <<53, 10, 104, 101, 108, 108, 111, 13, 10, 48, 13, 10, 13, 10>>
  \* A\r\n0123456789\r\n0\r\n\r\n
    [] n = "ChunkHexA" ->
       <<65, 13, 10, 48, 49, 50, 51, 52, 53, 54, 55, 56, 57, 13, 10, 48,
         13, 10, 13, 10>>
  \* b\r\nhello world\r\n0\r\n\r\n
    [] n = "ChunkHexb" ->
       <<98, 13, 10, 104, 101, 108, 108, 111, 32, 119, 111, 114, 108, 100,
         13, 10, 48, 13, 10, 13, 10>>
  \* 5;x z\r\nhello\r\n0\r\n\r\n
    [] n = "ChunkExt" ->
       <<53, 59, 120, 32, 122, 13, 10, 104, 101, 108, 108, 111, 13, 10, 48,
         13, 10, 13, 10>>
  \* 2\r\nhi\r\n3\r\nabc\r\n0\r\n\r\n
    [] n = "ChunkTwo" ->
       <<50, 13, 10, 104, 105, 13, 10, 51, 13, 10, 97, 98, 99, 13, 10, 48,
         13, 10, 13, 10>>
  \* 5\r\nhelloXY0\r\n\r\n
    [] n = "ChunkDataXY" ->
       <<53, 13, 10, 104, 101, 108, 108, 111, 88, 89, 48, 13, 10, 13, 10>>
  \* 5\r\nhello\rX0\r\n\r\n
    [] n = "ChunkDataCRX" ->
       <<53, 13, 10, 104, 101, 108, 108, 111, 13, 88, 48, 13, 10, 13, 10>>
  \* 5\r\nhello0\r\n\r\n
    [] n = "ChunkDataNone" ->
       <<53, 13, 10, 104, 101, 108, 108, 111, 48, 13, 10, 13, 10>>

\* Where in a malformed body the first byte stands that must be refused.
RefusedAt(n) ==
  CASE n = "ChunkSizeG" -> 2
    [] n = "ChunkSizeSP" -> 2
    [] n = "ChunkSizeCRX" -> 3
    [] n = "ChunkExtCRX" -> 6
    [] n = "ChunkSizeLF" -> 2
    [] n = "ChunkDataXY" -> 9
    [] n = "ChunkDataCRX" -> 10
    [] n = "ChunkDataNone" -> 9

\* The chunk data a well-formed body carries.
ChunkDataOf(n) ==
  CASE n = "ChunkHexA" -> <<48, 49, 50, 51, 52, 53, 54, 55, 56, 57>>  \* 0123456789
    [] n = "ChunkHexb" -> <<104, 101, 108, 108, 111, 32, 119, 111, 114, 108, 100>>  \* hello world
    [] n = "ChunkExt" -> <<104, 101, 108, 108, 111>>  \* hello
    [] n = "ChunkTwo" -> <<104, 105, 97, 98, 99>>  \* hiabc

\* The header block of the chunked request.
ChunkedHead == SubSeq(ReqChunked, 1, HeaderEnd(ReqChunked))

\* The 29 method names, each followed by SP.
MethodLines ==
  {"CHECKOUT ", "CONNECT ", "COPY ", "DELETE ", "GET ", "HEAD ", "LINK ",
   "LOCK ", "MERGE ", "MKACTIVITY ", "MKCALENDAR ", "MKCOL ", "MOVE ",
   "M-SEARCH ", "NOTIFY ", "OPTIONS ", "PATCH ", "POST ", "PROPFIND ",
   "PROPPATCH ", "PURGE ", "PUT ", "REPORT ", "SEARCH ", "SUBSCRIBE ",
   "TRACE ", "UNLINK ", "UNLOCK ", "UNSUBSCRIBE "}

\* The method a method line names.
MethodOf(n) ==
  CASE n = "CHECKOUT " -> "HttpCheckout"
    [] n = "CONNECT " -> "HttpConnect"
    [] n = "COPY " -> "HttpCopy"
    [] n = "DELETE " -> "HttpDelete"
    [] n = "GET " -> "HttpGet"
    [] n = "HEAD " -> "HttpHead"
    [] n = "LINK " -> "HttpLink"
    [] n = "LOCK " -> "HttpLock"
    [] n = "MERGE " -> "HttpMerge"
    [] n = "MKACTIVITY " -> "HttpMkActivity"
    [] n = "MKCALENDAR " -> "HttpMkCalendar"
    [] n = "MKCOL " -> "HttpMkCol"
    [] n = "MOVE " -> "HttpMove"
    [] n = "M-SEARCH " -> "HttpMsearch"
    [] n = "NOTIFY " -> "HttpNotify"
    [] n = "OPTIONS " -> "HttpOptions"
    [] n = "PATCH " -> "HttpPatch"
    [] n = "POST " -> "HttpPost"
    [] n = "PROPFIND " -> "HttpPropFind"
    [] n = "PROPPATCH " -> "HttpPropPatch"
    [] n = "PURGE " -> "HttpPurge"
    [] n = "PUT " -> "HttpPut"
    [] n = "REPORT " -> "HttpReport"
    [] n = "SEARCH " -> "HttpSearch"
    [] n = "SUBSCRIBE " -> "HttpSubscribe"
    [] n = "TRACE " -> "HttpTrace"
    [] n = "UNLINK " -> "HttpUnlink"
    [] n = "UNLOCK " -> "HttpUnlock"
    [] n = "UNSUBSCRIBE " -> "HttpUnsubscribe"

\* Request lines up to the version; CR LF follows on the wire.
VersionLines ==
  {"GET / HTTP/1.0", "GET / HTTP/1.1", "GET / HTTP/0.9", "GET / HTTP/2.0",
   "GET / HTTP/1.2", "GET / HTTP/1.", "GET / HTTP/.1", "GET / HTTP/1.x",
   "GET / HTTP/65537.0", "GET / HTTP/01.1"}

\* Status lines up to the SP that ends the version.
StatusLines ==
  {"HTTP/1.0 ", "HTTP/1.1 ", "HTTP/0.9 ", "HTTP/2.0 ", "HTTP/1. ",
   "HTTP/65537.1 "}

\* A proper prefix of a method name followed by SP.
ShortLines ==
  {"GE ", "P ", "MK "}

\* Method tokens that are no method name.
WrongLines ==
  {"GETX ", "GEX ", "XET ", "get "}

(***************************************************************************)
(* Header lines, each sent as the one header of a GET request              *)
(***************************************************************************)
\* Header names that are a proper prefix of Connection, Content-Length or
\* Transfer-Encoding, with a value the full name would act on.
PrefixNames ==
  {"C: close", "Conn: close", "Cont: 5", "T: chunked", "Transfer: chunked"}

\* Names that deviate from one of the three names at one byte.
DeviatingNames ==
  {"Xonnection: close", "Connectiom: close", "Content-Kength: 5",
   "Transfer-Encodinx: chunked"}

\* Names that go on after one of the three names.
LongerNames ==
  {"Connections: close", "Content-Lengths: 5", "Transfer-Encodings: chunked"}

NameLines == PrefixNames \cup DeviatingNames \cup LongerNames

\* Connection headers whose value is close.
CloseExact ==
  {"Connection: close", "CONNECTION: CLOSE", "connection:close",
   "Connection:  Close"}

\* Connection headers whose value is keep-alive.
KeepAliveExact ==
  {"Connection: keep-alive", "connection: Keep-Alive",
   "CONNECTION:KEEP-ALIVE"}

\* Transfer-Encoding headers whose value is chunked.
ChunkedExact ==
  {"Transfer-Encoding: chunked", "transfer-encoding: CHUNKED",
   "TRANSFER-ENCODING:Chunked"}

\* Connection headers whose value is upgrade.
UpgradeExact ==
  {"Connection: upgrade", "connection: UPGRADE", "CONNECTION:Upgrade"}

\* Connection and Transfer-Encoding headers with a truncated, an extended or
\* another value.
OtherValues ==
  {"Connection: clos", "Connection: closed", "Connection: close ",
   "Connection: xyz", "Connection: chunked", "Connection: keep-aliv",
   "Connection: keep-alivex", "Connection: keep-alive ", "Connection: keep",
   "Transfer-Encoding: chunke", "Transfer-Encoding: chunkedx",
   "Transfer-Encoding: chunked ", "Transfer-Encoding: gzip",
   "Transfer-Encoding: close", "Connection: upgrad", "Connection: upgraded",
   "Connection: up"}

ValueLines == CloseExact \cup KeepAliveExact \cup ChunkedExact \cup UpgradeExact \cup OtherValues

\* The header lines sent in an HTTP/1.0 request; the others are sent in an
\* HTTP/1.1 request.
OldLines ==
  {"Connection: keep-alive", "connection: Keep-Alive",
   "CONNECTION:KEEP-ALIVE", "Connection: keep-aliv",
   "Connection: keep-alivex", "Connection: keep-alive ", "Connection: keep"}

\* Content-Length headers whose value is decimal digits only.
DigitLengths ==
  {"Content-Length: 5", "content-length: 12", "CONTENT-LENGTH:0",
   "Content-Length:  307"}

\* The number a digits-only Content-Length value denotes.
LengthOf(n) ==
  CASE n = "Content-Length: 5" -> 5
    [] n = "content-length: 12" -> 12
    [] n = "CONTENT-LENGTH:0" -> 0
    [] n = "Content-Length:  307" -> 307

\* Content-Length headers whose value has a byte that is no decimal digit.
OtherLengths ==
  {"Content-Length: a5", "Content-Length: 5a", "Content-Length: 1 2",
   "Content-Length: x", "Content-Length: -1", "Content-Length: 1,2"}

LengthLines == DigitLengths \cup OtherLengths

\* Header names made of token characters.
GoodTokens ==
  {"a!b: v", "a#b: v", "a$b: v", "a%b: v", "a&b: v", "a'b: v", "a*b: v",
   "a+b: v", "a-b: v", "a.b: v", "a^b: v", "a_b: v", "a|b: v", "a~b: v",
   "Az09: v"}

\* Header names with a byte that is no token character: the second byte of
\* the name, or the colon as its first byte.
BadTokens ==
  {"a/b: v", "a(b: v", "a)b: v", "a,b: v", "a;b: v", "a=b: v", "a@b: v",
   "a[b: v", "a<backslash>b: v", "a<dquote>b: v", "a<b: v", "a>b: v",
   "a?b: v", "a]b: v", "a{b: v", "a}b: v", "a b: v", ": v"}

TokenLines == GoodTokens \cup BadTokens

\* The header lines followed on the wire by the last chunk, 0 CR LF CR LF.
ChunkTail ==
  {"T: chunked", "Transfer: chunked", "Transfer-Encodinx: chunked",
   "Transfer-Encodings: chunked", "Transfer-Encoding: chunked",
   "transfer-encoding: CHUNKED", "TRANSFER-ENCODING:Chunked",
   "Transfer-Encoding: chunke", "Transfer-Encoding: chunkedx",
   "Transfer-Encoding: chunked ", "Transfer-Encoding: gzip",
   "Transfer-Encoding: close"}

HeaderLines == NameLines \cup ValueLines \cup LengthLines \cup TokenLines

\* Status lines with a status code of three digits followed by SP or CR; CR LF
\* CR LF follows on the wire.
GoodStatus ==
  {"HTTP/1.1 200 OK", "HTTP/1.0 000 x", "HTTP/1.1 999 x", "HTTP/1.1 404"}

\* The status code of a GoodStatus line.
CodeOf(n) ==
  CASE n = "HTTP/1.1 200 OK" -> 200
    [] n = "HTTP/1.0 000 x" -> 0
    [] n = "HTTP/1.1 999 x" -> 999
    [] n = "HTTP/1.1 404" -> 404

\* Status lines with fewer than three digits where the status code stands.
ShortStatus ==
  {"HTTP/1.1 20 OK", "HTTP/1.1 2 OK", "HTTP/1.1  OK", "HTTP/1.1 20x OK"}

\* Status lines with three digits followed by a byte other than SP, CR and LF.
LongStatus ==
  {"HTTP/1.1 2000 OK", "HTTP/1.1 200x OK"}

StatusCodeLines == GoodStatus \cup ShortStatus \cup LongStatus

\* The characters of a line.
Chars(n) ==
  CASE n = "CHECKOUT " -> <<"C", "H", "E", "C", "K", "O", "U", "T", " ">>
    [] n = "CONNECT " -> <<"C", "O", "N", "N", "E", "C", "T", " ">>
    [] n = "COPY " -> <<"C", "O", "P", "Y", " ">>
    [] n = "DELETE " -> <<"D", "E", "L", "E", "T", "E", " ">>
    [] n = "GET " -> <<"G", "E", "T", " ">>
    [] n = "HEAD " -> <<"H", "E", "A", "D", " ">>
    [] n = "LINK " -> <<"L", "I", "N", "K", " ">>
    [] n = "LOCK " -> <<"L", "O", "C", "K", " ">>
    [] n = "MERGE " -> <<"M", "E", "R", "G", "E", " ">>
    [] n = "MKACTIVITY " -> <<"M", "K", "A", "C", "T", "I", "V", "I", "T", "Y", " ">>
    [] n = "MKCALENDAR " -> <<"M", "K", "C", "A", "L", "E", "N", "D", "A", "R", " ">>
    [] n = "MKCOL " -> <<"M", "K", "C", "O", "L", " ">>
    [] n = "MOVE " -> <<"M", "O", "V", "E", " ">>
    [] n = "M-SEARCH " -> <<"M", "-", "S", "E", "A", "R", "C", "H", " ">>
    [] n = "NOTIFY " -> <<"N", "O", "T", "I", "F", "Y", " ">>
    [] n = "OPTIONS " -> <<"O", "P", "T", "I", "O", "N", "S", " ">>
    [] n = "PATCH " -> <<"P", "A", "T", "C", "H", " ">>
    [] n = "POST " -> <<"P", "O", "S", "T", " ">>
    [] n = "PROPFIND " -> <<"P", "R", "O", "P", "F", "I", "N", "D", " ">>
    [] n = "PROPPATCH " -> <<"P", "R", "O", "P", "P", "A", "T", "C", "H", " ">>
    [] n = "PURGE " -> <<"P", "U", "R", "G", "E", " ">>
    [] n = "PUT " -> <<"P", "U", "T", " ">>
    [] n = "REPORT " -> <<"R", "E", "P", "O", "R", "T", " ">>
    [] n = "SEARCH " -> <<"S", "E", "A", "R", "C", "H", " ">>
    [] n = "SUBSCRIBE " -> <<"S", "U", "B", "S", "C", "R", "I", "B", "E", " ">>
    [] n = "TRACE " -> <<"T", "R", "A", "C", "E", " ">>
    [] n = "UNLINK " -> <<"U", "N", "L", "I", "N", "K", " ">>
    [] n = "UNLOCK " -> <<"U", "N", "L", "O", "C", "K", " ">>
    [] n = "UNSUBSCRIBE " -> <<"U", "N", "S", "U", "B", "S", "C", "R", "I", "B", "E", " ">>
    [] n = "GET / HTTP/1.0" -> <<"G", "E", "T", " ", "/", " ", "H", "T", "T", "P", "/", "1", ".", "0">>
    [] n = "GET / HTTP/1.1" -> <<"G", "E", "T", " ", "/", " ", "H", "T", "T", "P", "/", "1", ".", "1">>
    [] n = "GET / HTTP/0.9" -> <<"G", "E", "T", " ", "/", " ", "H", "T", "T", "P", "/", "0", ".", "9">>
    [] n = "GET / HTTP/2.0" -> <<"G", "E", "T", " ", "/", " ", "H", "T", "T", "P", "/", "2", ".", "0">>
    [] n = "GET / HTTP/1.2" -> <<"G", "E", "T", " ", "/", " ", "H", "T", "T", "P", "/", "1", ".", "2">>
    [] n = "GET / HTTP/1." -> <<"G", "E", "T", " ", "/", " ", "H", "T", "T", "P", "/", "1", ".">>
    [] n = "GET / HTTP/.1" -> <<"G", "E", "T", " ", "/", " ", "H", "T", "T", "P", "/", ".", "1">>
    [] n = "GET / HTTP/1.x" -> <<"G", "E", "T", " ", "/", " ", "H", "T", "T", "P", "/", "1", ".", "x">>
    [] n = "GET / HTTP/65537.0" -> <<"G", "E", "T", " ", "/", " ", "H", "T", "T", "P", "/", "6", "5", "5", "3", "7", ".", "0">>
    [] n = "GET / HTTP/01.1" -> <<"G", "E", "T", " ", "/", " ", "H", "T", "T", "P", "/", "0", "1", ".", "1">>
    [] n = "HTTP/1.0 " -> <<"H", "T", "T", "P", "/", "1", ".", "0", " ">>
    [] n = "HTTP/1.1 " -> <<"H", "T", "T", "P", "/", "1", ".", "1", " ">>
    [] n = "HTTP/0.9 " -> <<"H", "T", "T", "P", "/", "0", ".", "9", " ">>
    [] n = "HTTP/2.0 " -> <<"H", "T", "T", "P", "/", "2", ".", "0", " ">>
    [] n = "HTTP/1. " -> <<"H", "T", "T", "P", "/", "1", ".", " ">>
    [] n = "HTTP/65537.1 " -> <<"H", "T", "T", "P", "/", "6", "5", "5", "3", "7", ".", "1", " ">>
    [] n = "GE " -> <<"G", "E", " ">>
    [] n = "P " -> <<"P", " ">>
    [] n = "MK " -> <<"M", "K", " ">>
    [] n = "GETX " -> <<"G", "E", "T", "X", " ">>
    [] n = "GEX " -> <<"G", "E", "X", " ">>
    [] n = "XET " -> <<"X", "E", "T", " ">>
    [] n = "get " -> <<"g", "e", "t", " ">>
    [] n = "HTTP/1.1 200 OK" -> <<"H", "T", "T", "P", "/", "1", ".", "1", " ", "2", "0", "0", " ", "O", "K">>
    [] n = "HTTP/1.0 000 x" -> <<"H", "T", "T", "P", "/", "1", ".", "0", " ", "0", "0", "0", " ", "x">>
    [] n = "HTTP/1.1 999 x" -> <<"H", "T", "T", "P", "/", "1", ".", "1", " ", "9", "9", "9", " ", "x">>
    [] n = "HTTP/1.1 404" -> <<"H", "T", "T", "P", "/", "1", ".", "1", " ", "4", "0", "4">>
    [] n = "HTTP/1.1 20 OK" -> <<"H", "T", "T", "P", "/", "1", ".", "1", " ", "2", "0", " ", "O", "K">>
    [] n = "HTTP/1.1 2 OK" -> <<"H", "T", "T", "P", "/", "1", ".", "1", " ", "2", " ", "O", "K">>
    [] n = "HTTP/1.1  OK" -> <<"H", "T", "T", "P", "/", "1", ".", "1", " ", " ", "O", "K">>
    [] n = "HTTP/1.1 20x OK" -> <<"H", "T", "T", "P", "/", "1", ".", "1", " ", "2", "0", "x", " ", "O", "K">>
    [] n = "HTTP/1.1 2000 OK" -> <<"H", "T", "T", "P", "/", "1", ".", "1", " ", "2", "0", "0", "0", " ", "O", "K">>
    [] n = "HTTP/1.1 200x OK" -> <<"H", "T", "T", "P", "/", "1", ".", "1", " ", "2", "0", "0", "x", " ", "O", "K">>
    [] n = "C: close" -> <<"C", ":", " ", "c", "l", "o", "s", "e">>
    [] n = "Conn: close" -> <<"C", "o", "n", "n", ":", " ", "c", "l", "o", "s", "e">>
    [] n = "Cont: 5" -> <<"C", "o", "n", "t", ":", " ", "5">>
    [] n = "T: chunked" -> <<"T", ":", " ", "c", "h", "u", "n", "k", "e", "d">>
    [] n = "Transfer: chunked" -> <<"T", "r", "a", "n", "s", "f", "e", "r", ":", " ", "c", "h", "u", "n", "k", "e", "d">>
    [] n = "Xonnection: close" -> <<"X", "o", "n", "n", "e", "c", "t", "i", "o", "n", ":", " ", "c", "l", "o", "s", "e">>
    [] n = "Connectiom: close" -> <<"C", "o", "n", "n", "e", "c", "t", "i", "o", "m", ":", " ", "c", "l", "o", "s", "e">>
    [] n = "Content-Kength: 5" -> <<"C", "o", "n", "t", "e", "n", "t", "-", "K", "e", "n", "g", "t", "h", ":", " ", "5">>
    [] n = "Transfer-Encodinx: chunked" -> <<"T", "r", "a", "n", "s", "f", "e", "r", "-", "E", "n", "c", "o", "d", "i", "n", "x", ":", " ", "c", "h", "u", "n", "k", "e", "d">>
    [] n = "Connections: close" -> <<"C", "o", "n", "n", "e", "c", "t", "i", "o", "n", "s", ":", " ", "c", "l", "o", "s", "e">>
    [] n = "Content-Lengths: 5" -> <<"C", "o", "n", "t", "e", "n", "t", "-", "L", "e", "n", "g", "t", "h", "s", ":", " ", "5">>
    [] n = "Transfer-Encodings: chunked" -> <<"T", "r", "a", "n", "s", "f", "e", "r", "-", "E", "n", "c", "o", "d", "i", "n", "g", "s", ":", " ", "c", "h", "u", "n", "k", "e", "d">>
    [] n = "Connection: close" -> <<"C", "o", "n", "n", "e", "c", "t", "i", "o", "n", ":", " ", "c", "l", "o", "s", "e">>
    [] n = "CONNECTION: CLOSE" -> <<"C", "O", "N", "N", "E", "C", "T", "I", "O", "N", ":", " ", "C", "L", "O", "S", "E">>
    [] n = "connection:close" -> <<"c", "o", "n", "n", "e", "c", "t", "i", "o", "n", ":", "c", "l", "o", "s", "e">>
    [] n = "Connection:  Close" -> <<"C", "o", "n", "n", "e", "c", "t", "i", "o", "n", ":", " ", " ", "C", "l", "o", "s", "e">>
    [] n = "Connection: clos" -> <<"C", "o", "n", "n", "e", "c", "t", "i", "o", "n", ":", " ", "c", "l", "o", "s">>
    [] n = "Connection: closed" -> <<"C", "o", "n", "n", "e", "c", "t", "i", "o", "n", ":", " ", "c", "l", "o", "s", "e", "d">>
    [] n = "Connection: close " -> <<"C", "o", "n", "n", "e", "c", "t", "i", "o", "n", ":", " ", "c", "l", "o", "s", "e", " ">>
    [] n = "Connection: xyz" -> <<"C", "o", "n", "n", "e", "c", "t", "i", "o", "n", ":", " ", "x", "y", "z">>
    [] n = "Connection: chunked" -> <<"C", "o", "n", "n", "e", "c", "t", "i", "o", "n", ":", " ", "c", "h", "u", "n", "k", "e", "d">>
    [] n = "Connection: keep-alive" -> <<"C", "o", "n", "n", "e", "c", "t", "i", "o", "n", ":", " ", "k", "e", "e", "p", "-", "a", "l", "i", "v", "e">>
    [] n = "connection: Keep-Alive" -> <<"c", "o", "n", "n", "e", "c", "t", "i", "o", "n", ":", " ", "K", "e", "e", "p", "-", "A", "l", "i", "v", "e">>
    [] n = "CONNECTION:KEEP-ALIVE" -> <<"C", "O", "N", "N", "E", "C", "T", "I", "O", "N", ":", "K", "E", "E", "P", "-", "A", "L", "I", "V", "E">>
    [] n = "Connection: keep-aliv" -> <<"C", "o", "n", "n", "e", "c", "t", "i", "o", "n", ":", " ", "k", "e", "e", "p", "-", "a", "l", "i", "v">>
    [] n = "Connection: keep-alivex" -> <<"C", "o", "n", "n", "e", "c", "t", "i", "o", "n", ":", " ", "k", "e", "e", "p", "-", "a", "l", "i", "v", "e", "x">>
    [] n = "Connection: keep-alive " -> <<"C", "o", "n", "n", "e", "c", "t", "i", "o", "n", ":", " ", "k", "e", "e", "p", "-", "a", "l", "i", "v", "e", " ">>
    [] n = "Connection: keep" -> <<"C", "o", "n", "n", "e", "c", "t", "i", "o", "n", ":", " ", "k", "e", "e", "p">>
    [] n = "Transfer-Encoding: chunked" -> <<"T", "r", "a", "n", "s", "f", "e", "r", "-", "E", "n", "c", "o", "d", "i", "n", "g", ":", " ", "c", "h", "u", "n", "k", "e", "d">>
    [] n = "transfer-encoding: CHUNKED" -> <<"t", "r", "a", "n", "s", "f", "e", "r", "-", "e", "n", "c", "o", "d", "i", "n", "g", ":", " ", "C", "H", "U", "N", "K", "E", "D">>
    [] n = "TRANSFER-ENCODING:Chunked" -> <<"T", "R", "A", "N", "S", "F", "E", "R", "-", "E", "N", "C", "O", "D", "I", "N", "G", ":", "C", "h", "u", "n", "k", "e", "d">>
    [] n = "Transfer-Encoding: chunke" -> <<"T", "r", "a", "n", "s", "f", "e", "r", "-", "E", "n", "c", "o", "d", "i", "n", "g", ":", " ", "c", "h", "u", "n", "k", "e">>
    [] n = "Transfer-Encoding: chunkedx" -> <<"T", "r", "a", "n", "s", "f", "e", "r", "-", "E", "n", "c", "o", "d", "i", "n", "g", ":", " ", "c", "h", "u", "n", "k", "e", "d", "x">>
    [] n = "Transfer-Encoding: chunked " -> <<"T", "r", "a", "n", "s", "f", "e", "r", "-", "E", "n", "c", "o", "d", "i", "n", "g", ":", " ", "c", "h", "u", "n", "k", "e", "d", " ">>
    [] n = "Transfer-Encoding: gzip" -> <<"T", "r", "a", "n", "s", "f", "e", "r", "-", "E", "n", "c", "o", "d", "i", "n", "g", ":", " ", "g", "z", "i", "p">>
    [] n = "Transfer-Encoding: close" -> <<"T", "r", "a", "n", "s", "f", "e", "r", "-", "E", "n", "c", "o", "d", "i", "n", "g", ":", " ", "c", "l", "o", "s", "e">>
    [] n = "Connection: upgrade" -> <<"C", "o", "n", "n", "e", "c", "t", "i", "o", "n", ":", " ", "u", "p", "g", "r", "a", "d", "e">>
    [] n = "connection: UPGRADE" -> <<"c", "o", "n", "n", "e", "c", "t", "i", "o", "n", ":", " ", "U", "P", "G", "R", "A", "D", "E">>
    [] n = "CONNECTION:Upgrade" -> <<"C", "O", "N", "N", "E", "C", "T", "I", "O", "N", ":", "U", "p", "g", "r", "a", "d", "e">>
    [] n = "Connection: upgrad" -> <<"C", "o", "n", "n", "e", "c", "t", "i", "o", "n", ":", " ", "u", "p", "g", "r", "a", "d">>
    [] n = "Connection: upgraded" -> <<"C", "o", "n", "n", "e", "c", "t", "i", "o", "n", ":", " ", "u", "p", "g", "r", "a", "d", "e", "d">>
    [] n = "Connection: up" -> <<"C", "o", "n", "n", "e", "c", "t", "i", "o", "n", ":", " ", "u", "p">>
    [] n = "Content-Length: 5" -> <<"C", "o", "n", "t", "e", "n", "t", "-", "L", "e", "n", "g", "t", "h", ":", " ", "5">>
    [] n = "content-length: 12" -> <<"c", "o", "n", "t", "e", "n", "t", "-", "l", "e", "n", "g", "t", "h", ":", " ", "1", "2">>
    [] n = "CONTENT-LENGTH:0" -> <<"C", "O", "N", "T", "E", "N", "T", "-", "L", "E", "N", "G", "T", "H", ":", "0">>
    [] n = "Content-Length:  307" -> <<"C", "o", "n", "t", "e", "n", "t", "-", "L", "e", "n", "g", "t", "h", ":", " ", " ", "3", "0", "7">>
    [] n = "Content-Length: a5" -> <<"C", "o", "n", "t", "e", "n", "t", "-", "L", "e", "n", "g", "t", "h", ":", " ", "a", "5">>
    [] n = "Content-Length: 5a" -> <<"C", "o", "n", "t", "e", "n", "t", "-", "L", "e", "n", "g", "t", "h", ":", " ", "5", "a">>
    [] n = "Content-Length: 1 2" -> <<"C", "o", "n", "t", "e", "n", "t", "-", "L", "e", "n", "g", "t", "h", ":", " ", "1", " ", "2">>
    [] n = "Content-Length: x" -> <<"C", "o", "n", "t", "e", "n", "t", "-", "L", "e", "n", "g", "t", "h", ":", " ", "x">>
    [] n = "Content-Length: -1" -> <<"C", "o", "n", "t", "e", "n", "t", "-", "L", "e", "n", "g", "t", "h", ":", " ", "-", "1">>
    [] n = "Content-Length: 1,2" -> <<"C", "o", "n", "t", "e", "n", "t", "-", "L", "e", "n", "g", "t", "h", ":", " ", "1", ",", "2">>
    [] n = "a!b: v" -> <<"a", "!", "b", ":", " ", "v">>
    [] n = "a#b: v" -> <<"a", "#", "b", ":", " ", "v">>
    [] n = "a$b: v" -> <<"a", "$", "b", ":", " ", "v">>
    [] n = "a%b: v" -> <<"a", "%", "b", ":", " ", "v">>
    [] n = "a&b: v" -> <<"a", "&", "b", ":", " ", "v">>
    [] n = "a'b: v" -> <<"a", "quote", "b", ":", " ", "v">>
    [] n = "a*b: v" -> <<"a", "*", "b", ":", " ", "v">>
    [] n = "a+b: v" -> <<"a", "+", "b", ":", " ", "v">>
    [] n = "a-b: v" -> <<"a", "-", "b", ":", " ", "v">>
    [] n = "a.b: v" -> <<"a", ".", "b", ":", " ", "v">>
    [] n = "a^b: v" -> <<"a", "^", "b", ":", " ", "v">>
    [] n = "a_b: v" -> <<"a", "_", "b", ":", " ", "v">>
    [] n = "a|b: v" -> <<"a", "|", "b", ":", " ", "v">>
    [] n = "a~b: v" -> <<"a", "~", "b", ":", " ", "v">>
    [] n = "Az09: v" -> <<"A", "z", "0", "9", ":", " ", "v">>
    [] n = "a/b: v" -> <<"a", "/", "b", ":", " ", "v">>
    [] n = "a(b: v" -> <<"a", "(", "b", ":", " ", "v">>
    [] n = "a)b: v" -> <<"a", ")", "b", ":", " ", "v">>
    [] n = "a,b: v" -> <<"a", ",", "b", ":", " ", "v">>
    [] n = "a;b: v" -> <<"a", ";", "b", ":", " ", "v">>
    [] n = "a=b: v" -> <<"a", "=", "b", ":", " ", "v">>
    [] n = "a@b: v" -> <<"a", "@", "b", ":", " ", "v">>
    [] n = "a[b: v" -> <<"a", "[", "b", ":", " ", "v">>
    [] n = "a<backslash>b: v" -> <<"a", "backslash", "b", ":", " ", "v">>
    [] n = "a<dquote>b: v" -> <<"a", "dquote", "b", ":", " ", "v">>
    [] n = "a<b: v" -> <<"a", "<", "b", ":", " ", "v">>
    [] n = "a>b: v" -> <<"a", ">", "b", ":", " ", "v">>
    [] n = "a?b: v" -> <<"a", "?", "b", ":", " ", "v">>
    [] n = "a]b: v" -> <<"a", "]", "b", ":", " ", "v">>
    [] n = "a{b: v" -> <<"a", "{", "b", ":", " ", "v">>
    [] n = "a}b: v" -> <<"a", "}", "b", ":", " ", "v">>
    [] n = "a b: v" -> <<"a", " ", "b", ":", " ", "v">>
    [] n = ": v" -> <<":", " ", "v">>

LineNames == MethodLines \cup VersionLines \cup StatusLines \cup ShortLines \cup WrongLines
ProbeNames ==
  LineNames \cup HeaderLines \cup LenientNames \cup LeadingNames \cup StatusCodeLines
    \cup ChunkNames
    \cup {"ResChunkedLF", "ReqEmptyValue", "ReqUpgradeLength", "ReqUpgradLength"}

\* The bytes of a probe on the wire.
Probe(n) ==
  IF n = "ResChunkedLF" THEN ResChunkedLF
  ELSE IF n = "ReqEmptyValue" THEN ReqEmptyValue
  ELSE IF n = "ReqUpgradeLength" THEN ReqUpgradeLength
  ELSE IF n = "ReqUpgradLength" THEN ReqUpgradLength
  ELSE IF n \in LenientNames THEN BareLF(LenientOf(n)[1], LenientOf(n)[2])
  ELSE IF n \in LeadingNames THEN LeadingOf(n)[1] \o LeadingOf(n)[2]
  ELSE IF n \in ChunkNames THEN ChunkedHead \o ChunkBody(n)
  ELSE IF n \in StatusCodeLines THEN Text(Chars(n)) \o <<CR, LF, CR, LF>>
  ELSE IF n \in HeaderLines
  THEN Text(Chars(IF n \in OldLines THEN "GET / HTTP/1.0" ELSE "GET / HTTP/1.1"))
         \o <<CR, LF>> \o Text(Chars(n)) \o <<CR, LF, CR, LF>>
         \o (IF n \in ChunkTail THEN <<Chr["0"], CR, LF, CR, LF>> ELSE <<>>)
  ELSE Text(Chars(n)) \o (IF n \in VersionLines THEN <<CR, LF>> ELSE <<>>)

ProbePlans == {<<n>> : n \in ProbeNames}

(***************************************************************************)
(* The caller: a connection that feeds a byte stream to one parser         *)
(***************************************************************************)
\* Longest slice the caller passes in one call, besides the whole rest.
MaxSlice == 2

Requests ==
  {"ReqGet09", "ReqGet10", "ReqGet11Host", "ReqClose", "ReqCloseMixed", "ReqKeepAlive",
   "ReqPrefixClose", "ReqUpgrad", "ReqLength", "ReqChunked", "ReqLeadingCRLF"}
Responses == {"Res304", "ResLength", "ResLength0", "ResChunked", "ResEof"}
Malformed ==
  {"BadMethod", "BadUrl", "BadVersion", "BadRequestLine", "BadHeaderField",
   "BadHeaders", "BadChunk", "BadStatusLine", "BadStatus"}
Names == Requests \cup Responses \cup Malformed

Message(n) ==
  CASE n = "ReqGet09"       -> ReqGet09
    [] n = "ReqGet10"       -> ReqGet10
    [] n = "ReqGet11Host"   -> ReqGet11Host
    [] n = "ReqClose"       -> ReqClose
    [] n = "ReqCloseMixed"  -> ReqCloseMixed
    [] n = "ReqKeepAlive"   -> ReqKeepAlive
    [] n = "ReqPrefixClose" -> ReqPrefixClose
    [] n = "ReqUpgrad"      -> ReqUpgrad
    [] n = "ReqLength"      -> ReqLength
    [] n = "ReqChunked"     -> ReqChunked
    [] n = "ReqLeadingCRLF" -> ReqLeadingCRLF
    [] n = "Res304"         -> Res304
    [] n = "ResLength"      -> ResLength
    [] n = "ResLength0"     -> ResLength0
    [] n = "ResChunked"     -> ResChunked
    [] n = "ResEof"         -> ResEof
    [] n = "BadMethod"      -> BadMethod
    [] n = "BadUrl"         -> BadUrl
    [] n = "BadVersion"     -> BadVersion
    [] n = "BadRequestLine" -> BadRequestLine
    [] n = "BadHeaderField" -> BadHeaderField
    [] n = "BadHeaders"     -> BadHeaders
    [] n = "BadChunk"       -> BadChunk
    [] n = "BadStatusLine"  -> BadStatusLine
    [] n = "BadStatus"      -> BadStatus
    [] OTHER                -> Probe(n)

\* What a connection carries: one message, or two messages back to back.
FirstOfTwo == {"ReqGet10", "ReqClose", "ReqUpgrad", "ReqLength", "ReqChunked",
               "Res304", "ResLength", "ResChunked"}
SecondOfTwo == {"ReqGet09", "ReqGet11Host", "ReqLength", "Res304", "ResLength"}
SameKind(a, b) == (a \in Requests) = (b \in Requests)
Plans ==
  {<<n>> : n \in Names} \cup
  {pl \in {<<a, b>> : a \in FirstOfTwo, b \in SecondOfTwo} : SameKind(pl[1], pl[2])}

Wire == [pl \in Plans \cup ProbePlans |->
           IF Len(pl) = 1 THEN Message(pl[1]) ELSE Message(pl[1]) \o Message(pl[2])]

\* The kind of parser the caller of a plan constructs.
KindsFor(pl) ==
  IF Len(pl) = 1 THEN ParseTypes
  ELSE IF pl[1] \in Requests THEN {"ParseRequest"} ELSE {"ParseResponse"}

\* Where a header block that ends with a lone LF ends.
LenientEnd(w) ==
  CHOOSE i \in 3..Len(w) :
    /\ SubSeq(w, i - 2, i) = <<CR, LF, LF>>
    /\ \A j \in 3..(i - 1) : SubSeq(w, j - 2, j) # <<CR, LF, LF>>

\* Where a read from the network may end: between two messages, and for
\* the chunked response anywhere in the body.  0 stands for no such point.
CutPoints(pl) ==
  IF Len(pl) = 2 THEN {Len(Message(pl[1]))}
  ELSE IF pl[1] = "ResChunked"
       THEN HeaderEnd(Message(pl[1])) .. (Len(Message(pl[1])) - 1)
  ELSE IF pl[1] = "ResChunkedLF"
       THEN {LenientEnd(Message(pl[1]))}
  ELSE IF pl[1] \in ChunkNames
       THEN {Len(ChunkedHead) + j : j \in {0, 3, 5, 8}} \cap (0..(Len(Message(pl[1])) - 1))
       ELSE {0}

\* The handler's record of the callbacks: writes that follow one another
\* are one run of bytes, as in a handler that appends to a buffer.
Record(log, ev) ==
  IF ev[1] # "write" THEN Append(log, ev)
  ELSE IF ev[2] = <<>> THEN log
  ELSE IF log # <<>> /\ log[Len(log)][1] = "write"
       THEN [log EXCEPT ![Len(log)] = <<"write", @[2] \o ev[2]>>]
       ELSE Append(log, ev)

RECURSIVE RecordAll(_, _)
RecordAll(log, evs) ==
  IF evs = <<>> THEN log ELSE RecordAll(Record(log, Head(evs)), Tail(evs))

Fired(log, cb) == \E i \in 1..Len(log) : log[i][1] = cb
Count(log, cb) == Cardinality({i \in 1..Len(log) : log[i][1] = cb})

VARIABLES
  parser,    \* the Parser instance
  plan,      \* the messages on the connection
  cut,       \* where the first read from the network ends
  skip,      \* what the handler's on_headers_complete returns
  pos,       \* bytes of the wire the parser has taken so far
  last,      \* the last parse call: input (offset, length), result, callbacks, parser before
  heard,     \* the handler's record of all callbacks so far
  total,     \* sum of the consumed values returned so far
  erred      \* some parse call has returned an error

vars == <<parser, plan, cut, skip, pos, last, heard, total, erred>>

NoCall ==
  [kind |-> "None", err |-> "None", consumed |-> 0, log |-> <<>>, seen |-> <<>>,
   len |-> 0,
   at |-> 0, before |-> new("ParseRequest"), erredBefore |-> FALSE]

Init ==
  /\ plan \in Plans
  /\ \E t \in KindsFor(plan) : parser = new(t)
  /\ cut \in CutPoints(plan)
  /\ skip \in BOOLEAN
  /\ pos = 0
  /\ last = NoCall
  /\ heard = <<>>
  /\ total = 0
  /\ erred = FALSE

\* A call that panicked or hangs never returns to the caller.
Returned == last.kind \notin {"Panic", "Hang"}

\* What the caller keeps of the result r of a call on k bytes.
Return(r, k) ==
  /\ parser' = r.p
  /\ last' = [kind |-> r.kind, err |-> r.err, consumed |-> r.consumed, log |-> r.log,
              seen |-> r.seen,
              len |-> k, at |-> pos, before |-> parser, erredBefore |-> erred]
  /\ pos' = IF r.kind = "Ok" THEN pos + r.consumed ELSE pos + k
  /\ heard' = RecordAll(heard, r.log)
  /\ total' = total + r.consumed
  /\ erred' = (erred \/ r.kind = "Err")
  /\ UNCHANGED <<plan, cut, skip>>

\* parser.parse(slice, handler) on the next k bytes of the wire.  The caller
\* keeps the bytes the parser did not consume and offers them again.
Call(k) == Return(parse(parser, SubSeq(Wire[plan], pos + 1, pos + k), skip), k)

Feed ==
  /\ Returned
  /\ \E k \in 1..MaxSlice : pos + k <= Len(Wire[plan]) /\ Call(k)

FeedRest ==
  /\ Returned
  /\ Len(Wire[plan]) - pos > MaxSlice
  /\ Call(Len(Wire[plan]) - pos)

FeedToCut ==
  /\ Returned
  /\ cut - pos > MaxSlice
  /\ Call(cut - pos)

FeedEmpty ==
  /\ Returned
  /\ Call(0)

Next == Feed \/ FeedToCut \/ FeedRest \/ FeedEmpty

Spec == Init /\ [][Next]_vars

\* A connection that carries one probe.
InitProbe ==
  /\ plan \in ProbePlans
  /\ \E t \in KindsFor(plan) : parser = new(t)
  /\ cut \in CutPoints(plan)
  /\ skip \in BOOLEAN
  /\ pos = 0
  /\ last = NoCall
  /\ heard = <<>>
  /\ total = 0
  /\ erred = FALSE

SpecProbe == InitProbe /\ [][Next]_vars

(***************************************************************************)
(* Properties                                                              *)
(***************************************************************************)
Called == last.kind # "None"
Completed == Fired(last.log, "on_message_complete")
M1 == Message(plan[1])

\* The connection carries well-formed messages to a parser of their kind.
Proper ==
  \/ plan[1] \in Requests /\ parser.parser_type = "ParseRequest"
  \/ plan[1] \in Responses /\ parser.parser_type = "ParseResponse"

\* The first message of the connection completed in the last call.
FirstCompleted == Completed /\ Count(heard, "on_message_complete") = 1

\* The message fed to a fresh parser of the same kind in a single call.
Alone(m) == parse(new(parser.parser_type), m, skip)

Flags(p) == <<p.keep_alive, p.upgrade, p.chunked>>

\* C1: once a parse call has returned an error the parser is Crashed, and
\* every later call returns OtherParseError, consumes nothing and invokes
\* no callback.
C1_CrashedLatching ==
  /\ last.kind = "Err" => parser.state = "Crashed"
  /\ Called /\ last.erredBefore =>
       /\ last.kind = "Err" /\ last.err = "OtherParseError"
       /\ last.consumed = 0 /\ last.log = <<>>

\* C2: every parse call returns; no call stays in a loop forever.
C2_ParseReturns == last.kind # "Hang"

\* C3: when a well-formed message has been fed in slices and taken whole, the
\* handler has heard the same callbacks with the same bytes, and the flags
\* are the same, as when the message is fed in a single call.
C3_SliceIndependence ==
  Len(plan) = 1 /\ Proper /\ plan[1] # "ReqLeadingCRLF"
    /\ last.kind = "Ok" /\ ~erred /\ pos = Len(M1) =>
       /\ heard = RecordAll(<<>>, Alone(M1).log)
       /\ Flags(parser) = Flags(Alone(M1).p)

\* C4: when a message that carries a version completes (its body not being
\* skipped by the handler), the consumed values returned so far add up to the
\* length of the message.
C4_ConsumedIsLength ==
  Len(plan) = 1 /\ Proper /\ plan[1] # "ReqGet09" /\ ~skip /\ FirstCompleted =>
    total = Len(M1)

\* C5: a successful call consumes less than its input only if a message
\* completed in it or the parser was Dead before it.
C5_WholeInputAbsorbed ==
  last.kind = "Ok" /\ last.consumed < last.len =>
    Completed \/ last.before.state = "Dead"

\* C6: the call in which the first of two messages ends stops at the end
\* of that message, and the second message, fed whole to the parser that has
\* taken the first, gives the callbacks and the result it gives alone.
C6_Pipelining ==
  Len(plan) = 2 /\ ~erred /\ ~skip =>
    /\ FirstCompleted /\ last.kind = "Ok" => total = Len(M1)
    /\ Called /\ last.at = Len(M1) /\ last.len = Len(Message(plan[2])) =>
         LET alone == Alone(Message(plan[2])) IN
         /\ last.kind = alone.kind
         /\ last.consumed = alone.consumed
         /\ last.log = alone.log

\* C7: a request line without version makes the parser Dead: the call
\* returns just past the CR or LF that ends the URL, the version is HTTP/0.9
\* and on_message_complete is the last callback; no later call consumes
\* anything, invokes a callback or changes a field.
C7_DeadIsAbsorbing ==
  /\ Called /\ last.before.state = "ReqUrl" /\ last.before.index > 0 /\ last.len > 0
       /\ Wire[plan][last.at + 1] \in {CR, LF} =>
         parser.state = "Dead" /\ last.kind = "Ok" /\ last.consumed = 1
  /\ Called /\ parser.state = "Dead" /\ last.before.state # "Dead" =>
       /\ last.kind = "Ok"
       /\ Wire[plan][last.at + last.consumed] \in {CR, LF}
       /\ parser.http_version = "HTTP_0_9"
       /\ last.log[Len(last.log)] = <<"on_message_complete">>
  /\ Called /\ last.before.state = "Dead" =>
       /\ last.kind = "Ok" /\ last.consumed = 0
       /\ last.log = <<>>
       /\ parser = last.before

\* C7 witness: GET /\r\n was consumed up to 6, and a later call with
\* input found the parser Dead.
C7_Witness ==
  /\ plan = <<"ReqGet09">> /\ total = 6 /\ parser.state = "Dead"
  /\ last.before.state = "Dead" /\ last.len > 0

\* C8 as stated: parse of an empty slice returns Ok(0) in every state.
C8_EmptyInputOk ==
  Called /\ last.len = 0 =>
    /\ last.kind = "Ok" /\ last.consumed = 0
    /\ last.log = <<>>
    /\ parser = last.before

\* C8 amended: parse of an empty slice invokes no callback and changes no
\* field; it returns Ok(0), except for a Crashed parser, where it returns
\* OtherParseError.
C8_EmptyInputNoOp ==
  Called /\ last.len = 0 =>
    /\ last.log = <<>>
    /\ parser = last.before
    /\ last.consumed = 0
    /\ last.before.state # "Crashed" => last.kind = "Ok"
    /\ last.before.state = "Crashed" =>
         last.kind = "Err" /\ last.err = "OtherParseError"

\* C8 witness: an empty slice was passed in the middle of a chunked body.
C8_Witness ==
  last.len = 0 /\ last.kind = "Ok" /\ parser.state = "ChunkData" /\ parser.chunked

\* What C9 says of each message: HTTP/1.1 without Connection: close, or
\* HTTP/1.0 with Connection: keep-alive.
KeepAliveExpected ==
  {"ReqGet11Host", "ReqKeepAlive", "ReqPrefixClose", "ReqUpgrad", "ReqLength",
   "ReqChunked", "Res304", "ResLength", "ResChunked"}

\* C9: after a message with a version completes, should_keep_alive() is
\* true iff the message is HTTP/1.1 without Connection: close or HTTP/1.0
\* with Connection: keep-alive.
C9_KeepAlive ==
  Len(plan) = 1 /\ Proper /\ plan[1] # "ReqGet09" /\ FirstCompleted =>
    (should_keep_alive(parser) <=> plan[1] \in KeepAliveExpected)

\* C10: when a call in which a message with a version completed returns,
\* the parser is in the start state of its kind.
C10_BackToStart ==
  last.kind = "Ok" /\ Completed /\ parser.http_version # "HTTP_0_9" =>
    parser.state = StartState(parser.parser_type)

\* C11: when a message has completed and the parser has reset, the version,
\* the method, the status code, the flags keep_alive, upgrade and chunked and
\* the body-remaining are those of a new parser, and the kind is unchanged.
C11_FieldReset ==
  last.kind = "Ok" /\ Completed /\ parser.state = StartState(parser.parser_type) =>
    /\ parser.http_version = "None"
    /\ parser.method = "None"
    /\ parser.status_code = 0
    /\ Flags(parser) = <<FALSE, FALSE, FALSE>>
    /\ parser.message_body_rest = UINT_MAX
    /\ parser.parser_type = last.before.parser_type

\* The bytes of the last call.
Slice == SubSeq(Wire[plan], last.at + 1, last.at + last.len)

\* The run context of the last call just before it read its final byte.
AtFinalByte == HeadPhase(Begin(last.before), SubSeq(Slice, 1, last.len - 1), skip)

\* The final byte of the last call was the LF that ends a header block.
EndedHeaders ==
  /\ Called /\ last.len > 0
  /\ last.before.state \notin BodyStates \cup {"Dead", "Crashed"}
  /\ Slice[last.len] = LF
  /\ AtFinalByte.ctl = "cont"
  /\ AtFinalByte.p.state \in {"HeaderFieldStart", "HeadersAlmostDone", "HeaderValueDiscardLWS"}

\* 1xx, 204 and 304: the statuses of a response without body.
NoBodyStatus(s) == s \div 100 = 1 \/ s = 204 \/ s = 304

\* The framing the priority list gives for the parser p at the end of the
\* headers, sk being what on_headers_complete returns.
Framing(sk, p) ==
  IF sk \/ p.upgrade THEN "complete"
  ELSE IF p.chunked THEN "chunked"
  ELSE IF p.message_body_rest \notin {0, UINT_MAX} THEN "identity"
  ELSE IF \/ p.message_body_rest = 0
          \/ p.parser_type = "ParseRequest"
          \/ NoBodyStatus(p.status_code)
       THEN "complete"
       ELSE "eof"

\* The framing the last call chose.
Decided ==
  IF last.log # <<>> /\ last.log[Len(last.log)] = <<"on_message_complete">>
  THEN "complete"
  ELSE CASE parser.state = "ChunkSize"       -> "chunked"
         [] parser.state = "BodyIdentity"    -> "identity"
         [] parser.state = "BodyIdentityEOF" -> "eof"
         [] OTHER                            -> "none"

\* C12: a call whose final byte is the LF that ends the headers chooses the
\* framing by the priority list: skip or upgrade, chunked, Content-Length
\* N > 0, no body, identity to EOF.
C12_FramingDecision ==
  EndedHeaders => Decided = Framing(skip, AtFinalByte.p)

\* The body of the catalog messages that carry Content-Length: 5.
WithLength == {"ReqLength", "ResLength"}
Body(m) == SubSeq(m, HeaderEnd(m) + 1, Len(m))

\* What the handler heard from on_headers_complete of the first message on.
RECURSIVE FromHeadersComplete(_)
FromHeadersComplete(log) ==
  IF log = <<>> \/ Head(log) = <<"on_headers_complete">> THEN log
  ELSE FromHeadersComplete(Tail(log))

\* C13: a call that finds the parser in BodyIdentity takes
\* min(slice, body-remaining) bytes, hands exactly those to the write sink
\* and lowers body-remaining by that amount; at zero on_body and
\* on_message_complete follow, once each, and the bytes behind the body stay
\* unconsumed.  Of a message with Content-Length: 5 the sink receives the five
\* bytes behind the blank line and nothing else, however the input is cut.
C13_IdentityBody ==
  /\ Called /\ last.before.state = "BodyIdentity" /\ last.len > 0 =>
       LET rest == last.before.message_body_rest
           n    == IF last.len < rest THEN last.len ELSE rest IN
       /\ last.kind = "Ok" /\ last.consumed = n
       /\ last.log[1] = <<"write", SubSeq(Slice, 1, n)>>
       /\ IF n = rest
          THEN /\ Len(last.log) = 3
               /\ last.log[2][1] = "on_body"
               /\ last.log[3] = <<"on_message_complete">>
               /\ parser.state = StartState(parser.parser_type)
          ELSE /\ Len(last.log) = 1
               /\ parser.state = "BodyIdentity"
               /\ parser.message_body_rest = rest - n
  /\ plan[1] \in WithLength /\ Proper /\ ~skip /\ ~erred /\ FirstCompleted =>
       LET body == FromHeadersComplete(heard) IN
       /\ Len(body) = 4
       /\ body[2] = <<"write", Body(M1)>>
       /\ body[3][1] = "on_body"
       /\ body[4] = <<"on_message_complete">>
       /\ total = Len(M1)

\* C13 witness: a call in BodyIdentity was given more than the body, took
\* the rest of the body only and completed the message.
C13_Witness ==
  /\ last.before.state = "BodyIdentity"
  /\ last.len > last.before.message_body_rest
  /\ last.consumed = last.before.message_body_rest
  /\ Completed /\ Len(plan) = 2

\* C14: a non-empty call that finds the parser in BodyIdentityEOF hands
\* all its bytes to the write sink, returns their number, leaves the state
\* BodyIdentityEOF and does not invoke on_message_complete.
C14_IdentityToEOF ==
  Called /\ last.before.state = "BodyIdentityEOF" /\ last.len > 0 =>
    /\ last.kind = "Ok" /\ last.consumed = last.len
    /\ last.log = << <<"write", Slice>> >>
    /\ parser.state = "BodyIdentityEOF"

\* The catalog messages with Transfer-Encoding: chunked; their one chunk
\* carries hello.
WithChunks == {"ReqChunked", "ResChunked"}
Hello == Text(<<"h", "e", "l", "l", "o">>)

\* C15: when a chunked message has completed, chunked() has been true since
\* the headers, the write sink has received the data bytes of the chunks and
\* nothing else of the body, on_message_complete has fired once, and the
\* consumed values add up to the whole message, the CRLF behind the zero-size
\* chunk included.
C15_ChunkedDecoding ==
  plan[1] \in WithChunks /\ Proper /\ ~skip /\ ~erred /\ FirstCompleted /\ last.kind = "Ok" =>
    /\ chunked(last.before) \/ last.at = 0
    /\ FromHeadersComplete(heard) =
         << <<"on_headers_complete">>, <<"write", Hello>>, <<"on_message_complete">> >>
    /\ total = Len(M1)

\* The version a start line carries when its numbers are (1,0), (1,1) or
\* (0,9); "None" for every other line.
VersionOf(n) ==
  CASE n \in {"GET / HTTP/1.0", "HTTP/1.0 "}                    -> "HTTP_1_0"
    [] n \in {"GET / HTTP/1.1", "GET / HTTP/01.1", "HTTP/1.1 "} -> "HTTP_1_1"
    [] n \in {"GET / HTTP/0.9", "HTTP/0.9 "}                    -> "HTTP_0_9"
    [] OTHER                                                    -> "None"

\* A line with a version is on the wire and the parser is of its kind.
VersionProbe ==
  \/ plan[1] \in VersionLines /\ parser.parser_type = "ParseRequest"
  \/ plan[1] \in StatusLines /\ parser.parser_type = "ParseResponse"

\* C16: a start line whose version numbers are (1,0), (1,1) or (0,9) is
\* accepted and on_version fires with that version; for every other version
\* the call that reads it returns InvalidVersion and leaves the parser
\* Crashed, and on_version does not fire.
C16_VersionAcceptance ==
  VersionProbe =>
    /\ last.kind = "Err" /\ ~last.erredBefore =>
         /\ VersionOf(plan[1]) = "None"
         /\ last.err = "InvalidVersion"
         /\ parser.state = "Crashed"
    /\ pos = Len(Wire[plan]) /\ Returned =>
         IF VersionOf(plan[1]) = "None"
         THEN erred /\ ~Fired(heard, "on_version")
         ELSE ~erred /\ (\E i \in 1..Len(heard) : heard[i] = <<"on_version", VersionOf(plan[1])>>)

\* A method line is on the wire of a request parser.
MethodProbe == plan[1] \in MethodLines /\ parser.parser_type = "ParseRequest"

\* C17: fed to a request parser in any slices, each of the 29 method names
\* followed by SP is taken without error, on_method reports that method and
\* the parser is in the URL state.
C17_MethodRecognition ==
  MethodProbe =>
    /\ last.kind \notin {"Err", "Panic", "Hang"}
    /\ pos = Len(Wire[plan]) =>
         /\ heard = << <<"on_message_begin">>, <<"on_method", MethodOf(plan[1])>> >>
         /\ parser.state = "ReqUrl"

\* A request parser is fed a method token that is no method name.
WrongProbe == plan[1] \in WrongLines /\ parser.parser_type = "ParseRequest"

\* C18: a method token that is no method name ends in InvalidMethod with
\* the parser Crashed: no call panics, the first error is InvalidMethod, the
\* token is never accepted and on_method is not invoked.
C18_MethodRejection ==
  WrongProbe =>
    /\ last.kind # "Panic"
    /\ last.kind = "Err" /\ ~last.erredBefore =>
         last.err = "InvalidMethod" /\ parser.state = "Crashed"
    /\ pos = Len(Wire[plan]) => erred
    /\ ~Fired(heard, "on_method")

\* A request parser is fed a proper prefix of a method name and SP.
ShortProbe == plan[1] \in ShortLines /\ parser.parser_type = "ParseRequest"

\* C19: a proper prefix of a method name followed by SP fails with an
\* error, and on_method is not invoked.
C19_MethodLength ==
  ShortProbe =>
    /\ ~Fired(heard, "on_method")
    /\ pos = Len(Wire[plan]) => erred

\* C20: the callbacks of GET /\r\n are on_message_begin, on_method(GET),
\* on_url(1) with the URL byte at the sink, on_version(0.9) and
\* on_message_complete, in this order and nothing else.
C20_Http09Callbacks ==
  plan = <<"ReqGet09">> /\ parser.parser_type = "ParseRequest" /\ Fired(heard, "on_message_complete") =>
    heard = << <<"on_message_begin">>, <<"on_method", "HttpGet">>,
               <<"write", <<Chr["/"]>>>>, <<"on_url", 1>>,
               <<"on_version", "HTTP_0_9">>, <<"on_message_complete">> >>

\* The place in a message after the callback cb, coming from place ph, for a
\* parser of kind t; "bad" when cb may not follow there.
After(ph, cb, t) ==
  CASE ph = "idle"   /\ cb = "on_message_begin"                         -> "begun"
    [] ph = "begun"  /\ cb = "on_method"  /\ t = "ParseRequest"         -> "method"
    [] ph = "method" /\ cb = "write"                                    -> "urlBytes"
    [] ph = "urlBytes" /\ cb = "on_url"                                 -> "url"
    [] ph = "url"    /\ cb = "on_version"                               -> "line"
    [] ph = "begun"  /\ cb = "on_version" /\ t = "ParseResponse"        -> "version"
    [] ph = "version" /\ cb = "on_status"                               -> "line"
    [] ph = "line"   /\ cb = "write"                                    -> "fieldBytes"
    [] ph = "fieldBytes" /\ cb = "on_header_field"                      -> "field"
    [] ph = "field"  /\ cb = "write"                                    -> "valueBytes"
    [] ph \in {"field", "valueBytes"} /\ cb = "on_header_value"         -> "line"
    [] ph = "line"   /\ cb = "on_headers_complete"                      -> "headers"
    [] ph = "headers" /\ cb = "write"                                   -> "bodyBytes"
    [] ph \in {"headers", "bodyBytes"} /\ cb = "on_body"                -> "body"
    [] ph \in {"headers", "bodyBytes", "body"} /\ cb = "on_message_complete" -> "idle"
    [] OTHER                                                            -> "bad"

\* The place reached by a record of callbacks.
RECURSIVE Place(_, _, _)
Place(ph, log, t) ==
  IF log = <<>> \/ ph = "bad" THEN ph
  ELSE Place(After(ph, Head(log)[1], t), Tail(log), t)

\* The messages of the connection carry a version and the parser is of
\* their kind.
Versioned ==
  /\ Proper
  /\ \A i \in 1..Len(plan) : plan[i] # "ReqGet09"

FirstIn(w, from, S) ==
  IF \E i \in from..Len(w) : w[i] \in S
  THEN CHOOSE i \in from..Len(w) : w[i] \in S /\ \A j \in from..(i - 1) : w[j] \notin S
  ELSE Len(w) + 1
FirstOut(w, from, S) ==
  IF \E i \in from..Len(w) : w[i] \notin S
  THEN CHOOSE i \in from..Len(w) : w[i] \notin S /\ \A j \in from..(i - 1) : w[j] \in S
  ELSE Len(w) + 1

\* The header names and values on the wire from position s on: a name runs
\* to the colon, a value from the first byte after the colon that is not SP
\* or HT to the end of the line.
RECURSIVE HeaderTokens(_, _)
HeaderTokens(w, s) ==
  IF s > Len(w) \/ w[s] \in {CR, LF} THEN <<>>
  ELSE LET colon == FirstIn(w, s, {Chr[":"]})
           v     == FirstOut(w, colon + 1, {Chr[" "], HT})
           e     == FirstIn(w, v, {CR, LF})
           n     == FirstIn(w, e, {LF})
       IN  << <<"on_header_field", SubSeq(w, s, colon - 1)>>,
              <<"on_header_value", SubSeq(w, v, e - 1)>> >> \o HeaderTokens(w, n + 1)

\* The tokens of a message on the wire, in order: the URL of a request, then
\* each header's name and value.
Tokens(w, t) ==
  LET b  == FirstOut(w, 1, {CR, LF})
      nl == FirstIn(w, b, {LF})
      s1 == FirstIn(w, b, {Chr[" "]})
      s2 == FirstIn(w, s1 + 1, {Chr[" "], CR, LF})
  IN  (IF t = "ParseRequest" THEN << <<"on_url", SubSeq(w, s1 + 1, s2 - 1)>> >> ELSE <<>>)
      \o HeaderTokens(w, nl + 1)

LengthCallbacks == {"on_url", "on_header_field", "on_header_value"}

\* What the handler has been told of the tokens: for every length callback
\* its name, the length passed and the bytes written since the callback
\* before it.
RECURSIVE Told(_, _)
Told(log, i) ==
  IF i > Len(log) THEN <<>>
  ELSE IF log[i][1] \in LengthCallbacks
       THEN << <<log[i][1], log[i][2],
                 IF i > 1 /\ log[i - 1][1] = "write" THEN log[i - 1][2] ELSE <<>> >> >>
            \o Told(log, i + 1)
       ELSE Told(log, i + 1)

\* The handler has been told the first tokens of message w, each with its
\* byte count and its bytes.
ToldTokensOf(w) ==
  LET told == Told(heard, 1)
      toks == Tokens(w, parser.parser_type)
  IN  /\ Len(told) <= Len(toks)
      /\ \A i \in 1..Len(told) :
           /\ told[i][1] = toks[i][1]
           /\ told[i][2] = Len(toks[i][2])
           /\ told[i][3] = toks[i][2]
      /\ Fired(heard, "on_headers_complete") => Len(told) = Len(toks)

WellFormed == Requests \cup Responses \cup {"ReqEmptyValue"}

\* C22: for a valid message, however it is sliced, every on_url,
\* on_header_field and on_header_value passes the byte count of the token on
\* the wire (the value without leading SP and HT), and the bytes written
\* since the length callback before it are the token's bytes.
C22_TokenLengths ==
  (/\ Len(plan) = 1 /\ plan[1] \in WellFormed
   /\ parser.parser_type = (IF plan[1] \in Responses THEN "ParseResponse" ELSE "ParseRequest"))
  => ToldTokensOf(M1)

\* C22 on the messages of the catalog only.
C22_Catalog ==
  (Len(plan) = 1 /\ Proper) => ToldTokensOf(M1)

\* The writes of the last call are pieces of the slice it was given.
WritesInside ==
  \A i \in 1..Len(last.log) :
    last.log[i][1] = "write" =>
      \E s \in 0..last.len : \E e \in s..last.len :
        last.log[i][2] = SubSeq(Slice, s + 1, e)

\* C23: every slice handed to write lies inside the input of the call, no
\* call fails on an index outside its input, and no call reports more bytes
\* than it was given; chunk data and the CR LF after it included.
C23_SliceBounds ==
  Called =>
    /\ WritesInside
    /\ ~(last.kind = "Panic" /\ last.err = "IndexOutOfBounds")
    /\ last.kind = "Ok" => last.consumed <= last.len

\* C23 witness: a call that began inside chunk data delivered the end of the
\* chunk and went past the CR LF after it.
C23_Witness ==
  /\ plan = <<"ResChunked">>
  /\ Called /\ last.kind = "Ok"
  /\ last.before.state = "ChunkData" /\ last.before.message_body_rest > 0
  /\ \E i \in 1..Len(last.log) : last.log[i][1] = "write" /\ last.log[i][2] # <<>>
  /\ parser.state # "ChunkData"


\* The value the handler was last given by callback cb.
Given(log, cb) ==
  log[CHOOSE i \in 1..Len(log) :
        log[i][1] = cb /\ \A j \in (i + 1)..Len(log) : log[j][1] # cb][2]

\* C24: after the call in which a response completed has returned, the
\* accessors give what was observed in it: the version and the status code
\* the handler was given, keep_alive as the version and Connection header
\* have it, upgrade false without Connection: upgrade, and chunked true iff
\* the response has Transfer-Encoding: chunked.
C24_Accessors ==
  (/\ Len(plan) = 1 /\ plan[1] \in Responses /\ parser.parser_type = "ParseResponse"
   /\ last.kind = "Ok" /\ Completed)
  => /\ get_http_version(parser) = Given(heard, "on_version")
     /\ get_status_code(parser) = Given(heard, "on_status")
     /\ should_keep_alive(parser) <=> plan[1] \in KeepAliveExpected
     /\ ~should_upgrade(parser)
     /\ chunked(parser) <=> plan[1] \in WithChunks


\* The connection carries one header-line request to a request parser, and
\* the last call, if any, has returned.
HeaderProbe(S) ==
  /\ Len(plan) = 1 /\ plan[1] \in S
  /\ parser.parser_type = "ParseRequest"
  /\ last.kind \in {"None", "Ok", "Err"}

\* body-remaining and the three flags are as the request line left them:
\* keep_alive as the version has it, nothing else set.
AsAfterRequestLine ==
  /\ parser.message_body_rest = UINT_MAX
  /\ should_keep_alive(parser) <=>
       (Fired(heard, "on_version") /\ Given(heard, "on_version") = "HTTP_1_1")
  /\ ~should_upgrade(parser)
  /\ ~chunked(parser)

\* C25: a header whose name is a proper prefix of Connection, Content-Length
\* or Transfer-Encoding, deviates from it at a byte or goes on after it
\* changes neither body-remaining nor keep_alive, upgrade or chunked,
\* whatever its value.
C25_NameMatching == HeaderProbe(NameLines) => AsAfterRequestLine

\* C25 for the names that deviate at a byte or go on after the full name.
C25_OtherNames ==
  HeaderProbe(DeviatingNames \cup LongerNames) => AsAfterRequestLine

C27_Upgrade ==
  /\ HeaderProbe(CloseExact \cup KeepAliveExact \cup UpgradeExact \cup OtherValues) =>
       (should_upgrade(parser) <=>
          (plan[1] \in UpgradeExact /\ Fired(heard, "on_header_value")))
  /\ HeaderProbe({"ReqUpgradeLength"}) =>
       /\ ~Fired(heard, "on_body")
       /\ pos <= HeaderEnd(M1)
       /\ pos = HeaderEnd(M1) => Fired(heard, "on_message_complete")

\* C27 for a request whose upgrade flag the code does set: it completes at
\* the end of its headers although it declares Content-Length: 5.
C27_FlaggedCompletes ==
  HeaderProbe({"ReqUpgradLength"}) =>
    /\ ~Fired(heard, "on_body")
    /\ pos = HeaderEnd(M1) =>
         should_upgrade(parser) /\ Fired(heard, "on_message_complete")


\* The Content-Length value has been read to its end and the blank line has
\* not been read yet.
AtEndOfValue == Fired(heard, "on_header_value") /\ ~Fired(heard, "on_headers_complete")

\* C28: at the end of a Content-Length value that is decimal digits only
\* body-remaining is the number the digits denote; if a byte of the value is
\* no decimal digit, the first byte and SP inside the value included,
\* body-remaining is the sentinel for unknown.
C28_ContentLength ==
  HeaderProbe(LengthLines) /\ AtEndOfValue =>
    parser.message_body_rest =
      (IF plan[1] \in DigitLengths THEN LengthOf(plan[1]) ELSE UINT_MAX)

\* C28 for the digits-only values.
C28_Digits ==
  HeaderProbe(DigitLengths) /\ AtEndOfValue =>
    parser.message_body_rest = LengthOf(plan[1])


\* Where on the wire the byte of a BadTokens name stands that is no token
\* character: after the request line, first or second in the name.
BadByteAt(n) == Len(Text(Chars("GET / HTTP/1.1"))) + 2 + (IF n = ": v" THEN 1 ELSE 2)

\* The bytes the token set consists of: letters, digits and
\* ! # $ % & ' * + - . ^ _ | ~
TokenBytes ==
  (Chr["A"]..Chr["Z"]) \cup (Chr["a"]..Chr["z"]) \cup (Chr["0"]..Chr["9"])
    \cup {Chr[ch] : ch \in {"!", "#", "$", "%", "&", "quote", "*", "+", "-", ".",
                            "^", "_", "|", "~"}}

\* C29: is_token is true for exactly the bytes of the token set; a header
\* name with a byte outside the set makes the call that reads the byte
\* return InvalidHeaderField and leaves the parser Crashed; a name of bytes
\* of the set is accepted.
C29_TokenSet ==
  /\ HeaderProbe(BadTokens) =>
       /\ pos >= BadByteAt(plan[1]) =>
            /\ is_token(M1[BadByteAt(plan[1])]) <=> M1[BadByteAt(plan[1])] \in TokenBytes
            /\ erred /\ parser.state = "Crashed"
       /\ last.kind = "Err" /\ ~last.erredBefore => last.err = "InvalidHeaderField"
       /\ ~Fired(heard, "on_header_field")
  /\ HeaderProbe(GoodTokens) =>
       /\ \A i \in 1..3 : is_token(Text(Chars(plan[1]))[i]) <=> Text(Chars(plan[1]))[i] \in TokenBytes
       /\ ~erred
       /\ Fired(heard, "on_header_value") => Fired(heard, "on_header_field")

\* C29 for the names made of bytes of the token set.
C29_GoodNames ==
  HeaderProbe(GoodTokens) =>
    /\ \A i \in 1..3 : is_token(Text(Chars(plan[1]))[i])
    /\ ~erred
    /\ Fired(heard, "on_header_value") => Fired(heard, "on_header_field")


\* The whole message has been passed in one call to a parser of its kind.
WholeLenient ==
  /\ Len(plan) = 1 /\ plan[1] \in LenientNames \cup {"ResChunkedLF"}
  /\ parser.parser_type =
       (IF LenientOf(plan[1])[1][1] = Chr["H"] THEN "ParseResponse" ELSE "ParseRequest")
  /\ last.kind # "None" /\ last.at = 0 /\ last.len = Len(M1)

\* What the same parser does with the CR LF form of the message.
Strict == parse(last.before, LenientOf(plan[1])[1], skip)

\* C30: a message with one line ended by a bare LF gives the callbacks, the
\* flags and the framing decision of its CR LF form: the same result of the
\* call, one byte less consumed, the same callbacks with the same arguments
\* and bytes, the same flags and the same state of the parser.
C30_BareLF ==
  WholeLenient =>
    /\ last.kind = Strict.kind
    /\ last.log = Strict.log
    /\ last.kind = "Ok" => last.consumed = Strict.consumed - 1
    /\ Flags(parser) = Flags(Strict.p)
    /\ parser.state = Strict.p.state
    /\ parser.message_body_rest = Strict.p.message_body_rest

\* C30 for the lines other than the blank line of a message that is chunked.
C30_Unchunked ==
  WholeLenient /\ plan[1] \notin {"ResChunkedLF", "ReqChunked/3"} =>
    /\ last.kind = Strict.kind
    /\ last.log = Strict.log
    /\ last.kind = "Ok" => last.consumed = Strict.consumed - 1
    /\ Flags(parser) = Flags(Strict.p)
    /\ parser.state = Strict.p.state
    /\ parser.message_body_rest = Strict.p.message_body_rest

\* The last call began in a start state on a slice whose first byte is CR or
\* LF.
AtLeadingByte ==
  /\ Called /\ last.len > 0
  /\ last.before.state \in {"StartReq", "StartRes"}
  /\ Slice[1] \in {CR, LF}

\* How many CR and LF bytes the slice begins with.
LeadingRun == FirstOut(Slice, 1, {CR, LF}) - 1

\* What a new parser of the kind makes the handler hear of message m.
Afresh(m) == parse(new(parser.parser_type), m, skip).log

\* What the handler hears of the message, if any, that stands before the
\* leading bytes.
Earlier(w) ==
  IF w[1] \in {CR, LF} THEN <<>>
  ELSE RecordAll(<<>>, Afresh(SubSeq(w, 1, HeaderEnd(w))))

\* The probe is a message with leading CR and LF, fed to a parser of its kind.
LeadingProbe ==
  /\ Len(plan) = 1 /\ plan[1] \in LeadingNames
  /\ parser.parser_type =
       (IF LeadingOf(plan[1])[2][1] = Chr["H"] THEN "ParseResponse" ELSE "ParseRequest")

\* C31: a call that begins in StartReq or StartRes on CR or LF returns Ok,
\* takes at least one byte, and as long as it has taken leading bytes only
\* has called no callback and left the parser as it was; the message after
\* the leading bytes is heard as a new parser hears it without them, and is
\* taken to its last byte.
C31_LeadingCRLF ==
  /\ AtLeadingByte =>
       /\ last.kind = "Ok" /\ last.consumed >= 1
       /\ last.consumed <= LeadingRun => last.log = <<>> /\ parser = last.before
  /\ LeadingProbe /\ pos = Len(M1) =>
       /\ ~erred
       /\ heard = RecordAll(Earlier(LeadingOf(plan[1])[1]), Afresh(LeadingOf(plan[1])[2]))

\* C31 witness: a message that came after leading CR and LF has completed.
C31_Witness ==
  /\ LeadingProbe /\ pos = Len(M1)
  /\ Fired(last.log, "on_message_complete")
  /\ \E i \in 1..Len(heard) : heard[i][1] = "on_version"

\* The connection carries one status-line response to a response parser, and
\* the last call, if any, has returned.
StatusProbe(S) ==
  /\ Len(plan) = 1 /\ plan[1] \in S
  /\ parser.parser_type = "ParseResponse"
  /\ last.kind \in {"None", "Ok", "Err"}

\* The status codes the handler has been given, in order.
RECURSIVE Codes(_)
Codes(log) ==
  IF log = <<>> THEN <<>>
  ELSE (IF Head(log)[1] = "on_status" THEN <<Head(log)[2]>> ELSE <<>>) \o Codes(Tail(log))

\* C32: on_status is invoked once per response, only after three decimal
\* digits, with their decimal value, 000 and 999 included; with fewer than
\* three digits it is not invoked; three digits followed by a byte other
\* than SP, CR and LF give InvalidStatusLine; and the second response of a
\* connection is given its own status code.
C32_StatusCode ==
  /\ StatusProbe(GoodStatus) =>
       /\ ~erred
       /\ Codes(heard) \in {<<>>, <<CodeOf(plan[1])>>}
       /\ Fired(heard, "on_headers_complete") => Codes(heard) # <<>>
  /\ StatusProbe(ShortStatus) => Codes(heard) = <<>>
  /\ StatusProbe(LongStatus) =>
       /\ Codes(heard) \in {<<>>, <<200>>}
       /\ ~Fired(heard, "on_headers_complete")
       /\ last.kind = "Err" /\ ~last.erredBefore =>
            last.err = "InvalidStatusLine" /\ parser.state = "Crashed"
  /\ StatusProbe({"LeadResSecond"}) /\ pos = Len(M1) => Codes(heard) = <<304, 200>>

\* C32 without the status lines of fewer than three digits.
C32_ThreeDigits ==
  /\ StatusProbe(GoodStatus) =>
       /\ ~erred
       /\ Codes(heard) \in {<<>>, <<CodeOf(plan[1])>>}
       /\ Fired(heard, "on_headers_complete") => Codes(heard) # <<>>
  /\ StatusProbe(LongStatus) =>
       /\ Codes(heard) \in {<<>>, <<200>>}
       /\ ~Fired(heard, "on_headers_complete")
       /\ last.kind = "Err" /\ ~last.erredBefore =>
            last.err = "InvalidStatusLine" /\ parser.state = "Crashed"
  /\ StatusProbe({"LeadResSecond"}) /\ pos = Len(M1) => Codes(heard) = <<304, 200>>


\* The connection carries one chunked request to a request parser, and the
\* last call, if any, has returned.
ChunkProbe(S) == HeaderProbe(S)

\* The first byte to refuse is never passed without an error: a call that
\* reads it returns InvalidChunk and leaves the parser Crashed.
Refused ==
  /\ pos >= Len(ChunkedHead) + RefusedAt(plan[1]) => erred /\ parser.state = "Crashed"
  /\ last.kind = "Err" /\ ~last.erredBefore =>
       /\ last.err = "InvalidChunk"
       /\ last.at + last.len >= Len(ChunkedHead) + RefusedAt(plan[1])
  /\ ~Fired(heard, "on_message_complete")

\* The bytes written to the handler after on_headers_complete.
Delivered ==
  LET from == FromHeadersComplete(heard) IN
  IF \E i \in 1..Len(from) : from[i][1] = "write"
  THEN from[CHOOSE i \in 1..Len(from) : from[i][1] = "write"][2]
  ELSE <<>>

\* The size the first chunk-size line of a well-formed body denotes.
FirstSize(n) ==
  CASE n = "ChunkHexA" -> 10
    [] n = "ChunkHexb" -> 11
    [] n = "ChunkExt"  -> 5
    [] n = "ChunkTwo"  -> 2

C34_ChunkDataEnd ==
  ChunkProbe(BadDataEnds) =>
    /\ Refused
    /\ Len(Delivered) <= 5


\* C35: every time on_message_complete is invoked for a message that has a
\* version (not an HTTP/0.9 request), the parser handed to the handler is
\* already reset: it is in the start state of its kind, its status code is 0,
\* its remaining body length is the initial UINT_MAX and skip_body is false.
C35_ResetBeforeComplete ==
  \A i \in 1..Len(last.seen) :
    last.seen[i].http_version # "HTTP_0_9" =>
      /\ last.seen[i].state = StartState(parser.parser_type)
      /\ last.seen[i].status_code = 0
      /\ last.seen[i].message_body_rest = UINT_MAX
      /\ ~last.seen[i].skip_body


\* C36: a parser that has just completed a valid first message treats a valid
\* second message as a fresh parser of the same kind does: the same result
\* and consumed count, the same callbacks with the same arguments, and the
\* same keep-alive, upgrade and chunked flags afterwards.
C36_HistoryIndependence ==
  Len(plan) = 2 /\ Proper /\ FirstCompleted /\ last.kind = "Ok" =>
    LET after == parse(parser, Message(plan[2]), skip)
        fresh == Alone(Message(plan[2])) IN
    /\ after.kind = fresh.kind
    /\ after.consumed = fresh.consumed
    /\ after.log = fresh.log
    /\ Flags(after.p) = Flags(fresh.p)


\* C37: every parse call, on a parser of any kind and after any sequence of
\* slices, ends by returning Ok(consumed) or a ParseError; none ends in a
\* panic (unreachable!(), unimplemented!(), an out-of-range index or slice)
\* or fails to end.
C37_NoAbnormalEnd ==
  Called => last.kind \in {"Ok", "Err"}


\* C38: in the request with the header lines `A:` and `Bc: d`, an empty value
\* followed by another header, the handler is told on_header_field(1) and
\* on_header_value(0) for the first line and then the whole name `Bc` with
\* on_header_field(2) and the value `d` with on_header_value(1), however the
\* request is sliced, and the request completes without error.
C38_EmptyValue ==
  /\ plan = <<"ReqEmptyValue">>
  /\ parser.parser_type = "ParseRequest"
  /\ pos = Len(Message("ReqEmptyValue"))
  => /\ ~erred
     /\ Len(heard) = 14
     /\ SubSeq(heard, 6, 14) =
          << <<"write", Text(<<"A">>)>>, <<"on_header_field", 1>>,
             <<"on_header_value", 0>>,
             <<"write", Text(<<"B", "c">>)>>, <<"on_header_field", 2>>,
             <<"write", Text(<<"d">>)>>, <<"on_header_value", 1>>,
             <<"on_headers_complete">>, <<"on_message_complete">> >>


\* The last call repeated with byte i of its slice replaced by b.
Swapped(i, b) == parse(last.before, [Slice EXCEPT ![i] = b], skip)

\* Bytes that stand for a line end, a letter and a digit.
Samples == {CR, LF, Chr["X"], Chr["1"]}

\* Byte i of the slice was examined or delivered by the last call: some other
\* byte in its place changes the result, the callbacks or the parser.
Examined(i) ==
  \E b \in Samples :
    LET r == Swapped(i, b) IN
    \/ r.kind # last.kind \/ r.consumed # last.consumed
    \/ r.log # last.log \/ r.p # parser

\* C39: a call that returns Ok(consumed) reports at most the length of its
\* slice, every byte it counts as consumed was examined or delivered, and no
\* byte behind the consumed prefix was.
C39_ConsumedPrefix ==
  Called /\ last.kind = "Ok" =>
    /\ last.consumed <= last.len
    /\ \A i \in 1..last.consumed : Examined(i)
    /\ \A i \in (last.consumed + 1)..last.len : ~Examined(i)

\* C39 for parsers that have seen no `Transfer-Encoding: chunked`.
C39_Unchunked ==
  Called /\ last.kind = "Ok" /\ ~parser.chunked =>
    /\ last.consumed <= last.len
    /\ \A i \in 1..last.consumed : Examined(i)
    /\ \A i \in (last.consumed + 1)..last.len : ~Examined(i)
====
